---- MODULE Spec2Model ----
(***************************************************************************)
(* Host side of glycin: the worker pool (glycin/src/pool.rs), the remote   *)
(* process life cycle (glycin/src/dbus.rs) and the loader, editor and      *)
(* creator operations that use them (glycin/src/api_*.rs).                 *)
(*                                                                         *)
(* Instants are kept as the time elapsed since they were taken (last_use)  *)
(* and timers as the time elapsed since they were armed (timeout).  The    *)
(* clock advances by more than the retention time at once, which is all    *)
(* the comparisons of the code distinguish.  The body of a timer runs at a *)
(* reading of the clock strictly after its deadline.                       *)
(***************************************************************************)
EXTENDS Integers, Sequences, FiniteSets, TLC

\* ---------------------------------------------------------------- bounds
NTasks == 2          \* concurrent caller operations (loads, edits, creates)
MaxProcs == 2        \* worker processes spawned in one run
MaxParallel == 2     \* largest max_parallel_operations a pool is built with

\* PoolConfig::default().loader_retention_time, in clock ticks
loader_retention_time == 1

Tasks == 1..NTasks
Procs == 1..MaxProcs
NoProc == 0
NoTask == 0
NoTimer == -1

\* ---------------------------------------------------------------- config
\* Config::image_loader / Config::image_editor: MIME -> entry.  The png
\* loader and the png editor are served by the same executable.
Mimes == {"svg", "png"}

image_loader(mime) ==
    IF mime = "svg"
    THEN [exec |-> "glycin-svg", expose_base_dir |-> TRUE, fontconfig |-> TRUE]
    ELSE [exec |-> "glycin-image-rs", expose_base_dir |-> FALSE, fontconfig |-> FALSE]

image_editor(mime) ==
    [exec |-> "glycin-image-rs", expose_base_dir |-> FALSE, fontconfig |-> FALSE]

SandboxMechanism == {"Bwrap", "NotSandboxed"}
NoDir == "None"
Dirs == {"dirA", "dirB"}

\* spin_up: base_dir is the file's parent only when the caller enabled
\* use_expose_base_dir and the config entry has expose_base_dir.
base_dir_of(use_expose_base_dir, entry, dir) ==
    IF use_expose_base_dir /\ entry.expose_base_dir THEN dir ELSE NoDir

\* The arguments get_loader / get_editor are called with.
Request(kind, entry, base_dir, sandbox) ==
    [kind |-> kind, exec |-> entry.exec, fontconfig |-> entry.fontconfig,
     expose_base_dir |-> entry.expose_base_dir, base_dir |-> base_dir,
     sandbox_mechanism |-> sandbox]

\* spin_up_loader, spin_up_editor (use_expose_base_dir = false) and
\* spin_up_encoder (base_dir = None).
LoaderRequests ==
    {Request("loader", image_loader(m), base_dir_of(u, image_loader(m), d), s) :
        m \in Mimes, u \in BOOLEAN, d \in Dirs, s \in SandboxMechanism}

EditorRequests ==
    {Request("editor", image_editor("png"), base_dir_of(FALSE, image_editor("png"), d), s) :
        d \in Dirs, s \in SandboxMechanism}

NoReq == [kind |-> "none"]

\* The requests the callers of one run make: the png loader, editor and
\* encoder of one sandbox mechanism ...
PoolWorkload == {r \in LoaderRequests \cup EditorRequests :
                   r.exec = "glycin-image-rs" /\ r.sandbox_mechanism = "Bwrap"}

\* ... or requests that differ from the svg loader's in one part each: the
\* base directory, the sandbox mechanism, the config entry, and with the
\* png editor the map.
KeysWorkload ==
    {r \in LoaderRequests \cup EditorRequests :
        \/ r.exec = "glycin-svg" /\ r.base_dir = "dirA"
        \/ r.exec = "glycin-svg" /\ r.base_dir = "dirB" /\ r.sandbox_mechanism = "Bwrap"
        \/ r.exec = "glycin-image-rs" /\ r.sandbox_mechanism = "Bwrap"}

hash_value_no_base_dir(r) ==
    [fontconfig |-> r.fontconfig, exec |-> r.exec,
     expose_base_dir |-> r.expose_base_dir, base_dir |-> NoDir,
     sandbox_mechanism |-> r.sandbox_mechanism]

\* ConfigEntry::hash_value
hash_value(r) ==
    [fontconfig |-> r.fontconfig, exec |-> r.exec,
     expose_base_dir |-> r.expose_base_dir, base_dir |-> r.base_dir,
     sandbox_mechanism |-> r.sandbox_mechanism]

ConfigEntryHash(requests) == {hash_value(r) : r \in requests}

VARIABLES
    workload,                \* the requests callers make in this run
    max_parallel_operations, \* PoolConfig.max_parallel_operations
    loaders,                 \* Pool.loaders: ConfigEntryHash -> Seq(Procs)
    editors,                 \* Pool.editors: ConfigEntryHash -> Seq(Procs)
    lock,                    \* holder of each map's AsyncMutex, by kind
    next_proc,               \* next unused process id
    spawned_with,            \* Procs -> arguments of RemoteProcess::new
    child,                   \* Procs -> "none" | "running" | "exited" | "killed"
    remote,                  \* Procs -> "none" | "live" | "dropped" (RemoteProcess)
    late_hook,               \* Procs -> late-cancel SIGKILL hook is connected
    proc_cancelled,          \* Procs -> the process cancellable has fired
    process_disconnected,    \* Procs -> RemoteProcess.process_disconnected
    last_use,                \* Procs -> time elapsed since PooledProcess.last_use
    timeout,                 \* Procs -> time elapsed since the timer was armed
    pc,                      \* Tasks -> position of the caller's operation
    op,                      \* Tasks -> "load" | "edit" | "create"
    req,                     \* Tasks -> request of the operation
    proc,                    \* Tasks -> Arc<PooledProcess> held
    usage_tracker,           \* Tasks -> process whose Arc<UsageTracker> is held
    cancelled,               \* Tasks -> the operation's cancellable has fired
    tie,                     \* Tasks -> get_process' cancellation tie is connected
    done_hook,               \* Tasks -> process captured by the cancel handler
    hook_done,               \* Tasks -> process of the handler's done() in flight
    bg_done,                 \* Tasks -> process of done_background()'s call in flight
    clean_pending,           \* Tasks -> detached clean_loaders() not yet run
    result                   \* Tasks -> what the step just taken returned to the caller

\* One image or editable image and its object in the worker's object server
\* (glycin-utils/src/dbus_loader_api.rs, dbus_editor_api.rs).
VARIABLES
    image,                   \* "image" | "editable": what the caller holds
    call,                    \* "none" | "sent" | "running" | "replied": the frame / apply call
    cancel_fired,            \* "no" | "idle" | "in_flight": when the cancellable fired
    done_calls,              \* done() requests on their way to the worker
    registered,              \* the object is in the worker's object server
    dropped_gate,            \* Image.dropped / EditableImage.dropped is set
    frame_request,           \* "none" | "running" | "Ok" | "LoaderError": the unblock task
    reply,                   \* the reply on its way to the host
    outcome                  \* what the last frame / apply call returned

\* One failing call of an operation (glycin/src/error.rs).
VARIABLES
    failure,                 \* where it failed, with what, and the state it failed in
    surfaced                 \* the ErrorCtx the caller gets

\* One call of RemoteProcess::new after the child was spawned
\* (glycin/src/dbus.rs:162-231).
VARIABLES
    spawn                    \* the child, the waiting thread, the handshake and the caller

\* One call of RemoteProcess::request_frame from the worker's reply on
\* (glycin/src/dbus.rs:310-397).
VARIABLES
    frame_,                  \* the Frame of the reply, as post-processing rewrites it
    texture,                 \* the memfds of the reply: size and seals
    img_buf,                 \* the host's ImgBuf: "MMap" of the texture or a "Vec"
    request                  \* options of the image, position in request_frame, result

\* The sources of loaders and editors and the GFileWorker each is sent to
\* (glycin/src/api_common.rs:112-150, glycin/src/dbus.rs:525-574).
VARIABLES
    source,                  \* Owners -> the Source the loader or editor holds
    g_file_worker,           \* Owners -> the Source its GFileWorker was spawned with
    reader,                  \* Owners -> what to_stream gave the GFileWorker's thread
    load_result              \* Owners -> what the last load() / edit() returned

\* One worker command from Sandbox::spawn to the running worker
\* (glycin/src/sandbox.rs:210-507).
VARIABLES
    command                  \* the Command, the limit it carries, and the child it starts

\* One call of a function of the library that keeps no state of its own.
VARIABLES
    fn_args,                 \* what it is called with
    fn_result                \* what it returned, of kind "none" until it has returned

\* The descriptor table of the child of one Sandbox::spawn
\* (glycin/src/sandbox.rs:210-266).
VARIABLES
    fds                      \* the mechanism, the stage of the child, and each descriptor

\* The frame calls on one image path and the decoder behind it
\* (glycin-utils/src/dbus_loader_api.rs, glycin-loaders/glycin-image-rs/src/main.rs).
VARIABLES
    decoder,                 \* the worker's decoder of the image
    frame_calls              \* the frame requests of the host, each with its reply

\* Config::load over the config files of the data directories
\* (glycin/src/config.rs:228-350).
VARIABLES
    config_files,            \* the files Config::load has read: their number and the last one
    config                   \* the Config built so far

poolVars == <<workload, max_parallel_operations, loaders, editors, lock, next_proc>>
procVars == <<spawned_with, late_hook, process_disconnected>>
dropVars == <<remote, child, proc_cancelled, timeout, last_use>>
taskVars == <<pc, op, req, proc, usage_tracker, cancelled, tie,
              done_hook, hook_done, bg_done, clean_pending>>
poolSide == <<poolVars, procVars, dropVars, taskVars, result>>
callVars == <<image, call, cancel_fired, done_calls, registered, dropped_gate,
              frame_request, reply, outcome>>
errVars == <<failure, surfaced>>
frameVars == <<frame_, texture, img_buf, request>>
sourceVars == <<source, g_file_worker, reader, load_result>>
firstVars == <<callVars, errVars, spawn, frameVars, sourceVars, command>>
fnVars == <<fn_args, fn_result>>
decoderVars == <<decoder, frame_calls>>
configVars == <<config_files, config>>
laterVars == <<fnVars, fds, decoderVars, configVars>>
sideVars == <<firstVars, laterVars>>
exceptCall == <<poolSide, errVars, spawn, frameVars, sourceVars, command, laterVars>>
exceptErr == <<poolSide, callVars, spawn, frameVars, sourceVars, command, laterVars>>
exceptSpawn == <<poolSide, callVars, errVars, frameVars, sourceVars, command, laterVars>>
exceptFrame == <<poolSide, callVars, errVars, spawn, sourceVars, command, laterVars>>
exceptSource == <<poolSide, callVars, errVars, spawn, frameVars, command, laterVars>>
exceptCommand == <<poolSide, callVars, errVars, spawn, frameVars, sourceVars, laterVars>>
exceptFn == <<poolSide, firstVars, fds, decoderVars, configVars>>
exceptFds == <<poolSide, firstVars, fnVars, decoderVars, configVars>>
exceptDecoder == <<poolSide, firstVars, fnVars, fds, configVars>>
exceptConfig == <<poolSide, firstVars, fnVars, fds, decoderVars>>
vars == <<poolSide, sideVars>>

\* ---------------------------------------------------------------- helpers
Dead == {"exited", "killed"}

\* PooledProcess::n_users: strong count of the process' usage tracker
n_users(p) == Cardinality({t \in Tasks : usage_tracker[t] = p})

InBucket(map, p) == \E h \in DOMAIN map : \E i \in 1..Len(map[h]) : map[h][i] = p
InPool(p) == InBucket(loaders, p) \/ InBucket(editors, p)

\* Holders of Arc<PooledProcess>: the pool, Image / EditableImage / the
\* process context of a running call, and the cancel handler's closure.
PooledReferenced(p) ==
    InPool(p) \/ \E t \in Tasks : proc[t] = p \/ done_hook[t] = p

\* Holders of Arc<RemoteProcess>: the PooledProcess and detached done() calls.
RemoteReferenced(p) ==
    PooledReferenced(p) \/ \E t \in Tasks : hook_done[t] = p \/ bg_done[t] = p

\* signal::kill(pid, SIGKILL)
sigkill(c, p) == IF c[p] = "running" THEN [c EXCEPT ![p] = "killed"] ELSE c

\* PooledProcess::use_
use_(p) == [last_use EXCEPT ![p] = 0]

\* The step returns res to caller t, or returns nothing to anybody.
returns(t, res) == result' = [u \in Tasks |-> IF u = t THEN res ELSE "none"]
quiet == result' = [u \in Tasks |-> "none"]

\* the worker calls in flight, by position of the caller
InCall == {"init", "frame", "dropping", "edit", "apply", "create"}

\* ResultExt::err_context / err_no_context
err_context(is_cancelled, err) == IF is_cancelled THEN "Canceled" ELSE err

forget_timer(t, tm) == tm

\* UsageTracker::drop, run when task t gives up the last Arc<UsageTracker>:
\* the retention timer is armed, replacing the one in the slot.
release_tracker(t, tm) ==
    LET p == usage_tracker[t] IN
    IF p # NoProc /\ n_users(p) = 1
    THEN [tm EXCEPT ![p] = 0]
    ELSE tm

\* Drop for RemoteProcess (cancels the process cancellable, whose late hook
\* kills the child) and for PooledProcess (drops its TimerHandle), applied to
\* every process that lost its last reference in this step.  r, c, k, tm, lu
\* are the step's values of remote, child, proc_cancelled, timeout and
\* last_use; last_use is only read for pooled processes and kept for them.
\* A step of the pool leaves everything outside the pool alone.
Settle(r, c, k, tm, lu) ==
    LET dropped(p) == r[p] = "live" /\ ~(RemoteReferenced(p))' IN
    /\ UNCHANGED sideVars
    /\ remote' = [p \in Procs |-> IF dropped(p) THEN "dropped" ELSE r[p]]
    /\ proc_cancelled' = [p \in Procs |-> k[p] \/ dropped(p)]
    /\ child' = [p \in Procs |->
                   IF dropped(p) /\ late_hook'[p] THEN sigkill(c, p)[p] ELSE c[p]]
    /\ timeout' = [p \in Procs |->
                   IF r[p] # "none" /\ ~(PooledReferenced(p))' THEN NoTimer ELSE tm[p]]
    /\ last_use' = [p \in Procs |-> IF (InPool(p))' THEN lu[p] ELSE 0]

Keep == Settle(remote, child, proc_cancelled, timeout, last_use)

\* ---------------------------------------------------------------- Init
InitWith(requests) ==
    /\ workload = requests
    /\ max_parallel_operations \in 1..MaxParallel
    /\ loaders = [h \in ConfigEntryHash(requests) |-> <<>>]
    /\ editors = [h \in ConfigEntryHash(requests) |-> <<>>]
    /\ lock = [k \in {"loader", "editor"} |-> NoTask]
    /\ next_proc = 1
    /\ spawned_with = [p \in Procs |-> NoReq]
    /\ child = [p \in Procs |-> "none"]
    /\ remote = [p \in Procs |-> "none"]
    /\ late_hook = [p \in Procs |-> FALSE]
    /\ proc_cancelled = [p \in Procs |-> FALSE]
    /\ process_disconnected = [p \in Procs |-> FALSE]
    /\ last_use = [p \in Procs |-> 0]
    /\ timeout = [p \in Procs |-> NoTimer]
    /\ pc = [t \in Tasks |-> "idle"]
    /\ op = [t \in Tasks |-> "none"]
    /\ req = [t \in Tasks |-> NoReq]
    /\ proc = [t \in Tasks |-> NoProc]
    /\ usage_tracker = [t \in Tasks |-> NoProc]
    /\ cancelled = [t \in Tasks |-> FALSE]
    /\ tie = [t \in Tasks |-> FALSE]
    /\ done_hook = [t \in Tasks |-> NoProc]
    /\ hook_done = [t \in Tasks |-> NoProc]
    /\ bg_done = [t \in Tasks |-> NoProc]
    /\ clean_pending = [t \in Tasks |-> FALSE]
    /\ result = [t \in Tasks |-> "none"]

\* No image is looked at on its own.
CallIdle(img) ==
    /\ image = img
    /\ call = "none"
    /\ cancel_fired = "no"
    /\ done_calls = 0
    /\ registered = (img # "none")
    /\ dropped_gate = FALSE
    /\ frame_request = "none"
    /\ reply = "none"
    /\ outcome = "none"

NoError == [variant |-> "none", detail |-> ""]
NoFailure == [op |-> "none", call |-> "none", ext |-> "none", err |-> NoError,
              is_cancelled |-> FALSE, stderr_content |-> "", stdout_content |-> ""]
NoErrorCtx == [error |-> NoError, stderr |-> "None", stdout |-> "None"]

\* No failure is looked at on its own.
ErrIdle == failure = NoFailure /\ surfaced = NoErrorCtx

\* RemoteProcess::new at its select (dbus.rs:193): the child runs, the
\* thread that spawned it waits for it, the handshake is pending.
AtSelect ==
    [child |-> "running", status |-> "none", early |-> FALSE, thread |-> "wait",
     dbus_result |-> "pending", cancellable |-> FALSE, stage |-> "select",
     returned |-> NoError]

\* No spawn is looked at on its own.
SpawnIdle == spawn = [AtSelect EXCEPT !.stage = "none"]

\* No frame request is looked at on its own.
NoFrame == [width |-> 0, height |-> 0, stride |-> 0, memory_format |-> "none"]
NoTexture == [len |-> 0, sealed |-> FALSE, color_icc_profile |-> "None"]
NoImgBuf == [kind |-> "none", len |-> 0]
NoRequest == [stage |-> "none", orientation |-> "_0", target_format |-> "None",
              declared |-> NoFrame, texture_size |-> 0,
              result |-> "none", buffer |-> 0]
FrameIdle ==
    frame_ = NoFrame /\ texture = NoTexture /\ img_buf = NoImgBuf /\ request = NoRequest

\* The loaders and editors whose sources are followed.
Owners == {"loader", "gly_loader", "editor"}
NoSource == [kind |-> "none", of |-> "none"]

\* No source is looked at on its own.
SourceIdle ==
    /\ source = [o \in Owners |-> NoSource]
    /\ g_file_worker = [o \in Owners |-> NoSource]
    /\ reader = [o \in Owners |-> "none"]
    /\ load_result = [o \in Owners |-> "none"]

\* No worker command is looked at on its own.
Unset == 0 - 1
NoCommand == [mechanism |-> "none", stage |-> "none", prlimit_as |-> Unset,
              pre_exec |-> {}, rlimit_as |-> Unset, memory_limit |-> Unset,
              allocated |-> 0]
CommandIdle == command = NoCommand

\* A call that has not returned.
NotReturned == [kind |-> "none"]

\* Nothing else is looked at on its own.
FnIdle == fn_args = "idle" /\ fn_result = "idle"
FdsIdle == fds = "idle"
DecoderIdle == decoder = "idle" /\ frame_calls = "idle"
ConfigIdle == config_files = "idle" /\ config = "idle"
LaterIdle == FnIdle /\ FdsIdle /\ DecoderIdle /\ ConfigIdle
FirstIdle ==
    CallIdle("none") /\ ErrIdle /\ SpawnIdle /\ FrameIdle /\ SourceIdle /\ CommandIdle

RestIdle == FrameIdle /\ SourceIdle /\ CommandIdle /\ LaterIdle

SideIdle == CallIdle("none") /\ ErrIdle /\ SpawnIdle /\ RestIdle

Init == InitWith(PoolWorkload) /\ SideIdle

\* ---------------------------------------------------------------- get_process
Map(kind) == IF kind = "loader" THEN loaders ELSE editors

usable_ignoring_disconnect(p) == n_users(p) < max_parallel_operations

\* pool.rs:188-194, the test a pooled process has to pass to be reused
usable(p) == ~process_disconnected[p] /\ n_users(p) < max_parallel_operations

select_last(bucket) ==
    IF \E i \in 1..Len(bucket) : usable(bucket[i])
    THEN bucket[CHOOSE i \in 1..Len(bucket) :
                  /\ usable(bucket[i])
                  /\ \A j \in 1..Len(bucket) : usable(bucket[j]) => j <= i]
    ELSE NoProc

\* pool.rs:187-203, the walk over the bucket: the first usable process
select_process(bucket) ==
    IF \E i \in 1..Len(bucket) : usable(bucket[i])
    THEN bucket[CHOOSE i \in 1..Len(bucket) :
                  /\ usable(bucket[i])
                  /\ \A j \in 1..(i - 1) : ~usable(bucket[j])]
    ELSE NoProc

lock_kept(kind) == lock

\* the MutexGuard of the map is dropped when get_process returns
unlock(kind) == [lock EXCEPT ![kind] = NoTask]

\* the first worker call of an operation, sent right after get_process
first_call(o) == CASE o = "load" -> "init" [] o = "edit" -> "edit" [] OTHER -> "create"

\* The requests an operation asks the pool with
requests(o) == (IF o = "load" THEN LoaderRequests ELSE EditorRequests) \cap workload

\* Nothing of the caller's previous operation is left behind.
settled(t) ==
    /\ ~tie[t]
    /\ done_hook[t] = NoProc /\ hook_done[t] = NoProc /\ bg_done[t] = NoProc
    /\ ~clean_pending[t]

\* The operation of task t is over with outcome res.
finish(t, res) ==
    /\ pc' = [pc EXCEPT ![t] = "idle"]
    /\ op' = [op EXCEPT ![t] = "none"]
    /\ req' = [req EXCEPT ![t] = NoReq]
    /\ cancelled' = [cancelled EXCEPT ![t] = FALSE]
    /\ returns(t, res)

\* Loader::load / Editor::edit / Creator::create up to the first worker
\* call.  The caller picks the operation and the request; its cancellable
\* may have fired already.  Then pool.rs:183-224: lock the map and walk the
\* bucket.  A usable process is returned with its tracker, and use_() and
\* the first call follow.  Otherwise the caller's cancellable is tied to a
\* fresh process cancellable and the sandboxed child is spawned
\* (dbus.rs:86-162), the lock being kept.
get_process(t, fired) ==
    /\ pc[t] = "idle"
    /\ settled(t)
    /\ \E o \in {"load", "edit", "create"} : \E r \in requests(o) :
       LET p == select_process(Map(r.kind)[hash_value(r)])
           begin == /\ op' = [op EXCEPT ![t] = o]
                    /\ req' = [req EXCEPT ![t] = r]
                    /\ cancelled' = [cancelled EXCEPT ![t] = fired]
                    /\ quiet IN
         /\ lock[r.kind] = NoTask
         /\ UNCHANGED <<workload, max_parallel_operations, loaders, editors,
                        late_hook, process_disconnected, done_hook, hook_done,
                        bg_done, clean_pending>>
         /\ IF p # NoProc
            THEN /\ begin
                 /\ pc' = [pc EXCEPT ![t] = first_call(o)]
                 /\ proc' = [proc EXCEPT ![t] = p]
                 /\ usage_tracker' = [usage_tracker EXCEPT ![t] = p]
                 /\ tie' = [tie EXCEPT ![t] = FALSE]
                 /\ UNCHANGED <<lock, next_proc, spawned_with>>
                 /\ Settle(remote, child, proc_cancelled, timeout, use_(p))
            ELSE IF fired
            THEN /\ finish(t, "Canceled")
                 /\ tie' = [tie EXCEPT ![t] = FALSE]
                 /\ UNCHANGED <<lock, next_proc, spawned_with, proc, usage_tracker>>
                 /\ Keep
            ELSE /\ next_proc <= MaxProcs
                 /\ begin
                 /\ pc' = [pc EXCEPT ![t] = "handshake"]
                 /\ lock' = [lock EXCEPT ![r.kind] = t]
                 /\ tie' = [tie EXCEPT ![t] = TRUE]
                 /\ next_proc' = next_proc + 1
                 /\ spawned_with' = [spawned_with EXCEPT ![next_proc] = r]
                 /\ proc' = [proc EXCEPT ![t] = next_proc]
                 /\ UNCHANGED usage_tracker
                 /\ Settle(remote, [child EXCEPT ![next_proc] = "running"],
                           proc_cancelled, timeout, last_use)

\* dbus.rs:126-145: command.spawn() fails and get_process returns the error
\* at pool.rs:223 with the tie still connected; the cancellable may have
\* fired in between.  The failed operation drops its Loader, Editor or
\* Creator, and the tie goes with the cancellable unless the caller holds
\* a reference of its own.
spawn_error(t, fired, held) ==
    /\ pc[t] = "idle"
    /\ settled(t)
    /\ \E o \in {"load", "edit", "create"} : \E r \in requests(o) :
         /\ lock[r.kind] = NoTask
         /\ select_process(Map(r.kind)[hash_value(r)]) = NoProc
         /\ finish(t, err_context(fired, "SpawnError"))
    /\ tie' = [tie EXCEPT ![t] = held]
    /\ UNCHANGED <<poolVars, procVars, proc, usage_tracker, done_hook, hook_done,
                   bg_done, clean_pending>>
    /\ Keep

spawn_failed_after_push(t, held, err) ==
    /\ finish(t, err_context(cancelled[t], err))
    /\ proc' = [proc EXCEPT ![t] = NoProc]
    /\ lock' = unlock(req[t].kind)
    /\ loaders' = IF req[t].kind = "loader"
                  THEN [loaders EXCEPT ![hash_value(req[t])] = Append(@, proc[t])]
                  ELSE loaders
    /\ editors' = IF req[t].kind = "editor"
                  THEN [editors EXCEPT ![hash_value(req[t])] = Append(@, proc[t])]
                  ELSE editors
    /\ UNCHANGED <<workload, max_parallel_operations, next_proc,
                   procVars, usage_tracker, done_hook, hook_done, bg_done,
                   clean_pending>>
    /\ tie' = [tie EXCEPT ![t] = held]

\* get_process returns an error of RemoteProcess::new (pool.rs:223): the
\* half-built process is dropped and the lock released.
spawn_failed(t, held, err) ==
    /\ finish(t, err_context(cancelled[t], err))
    /\ proc' = [proc EXCEPT ![t] = NoProc]
    /\ lock' = unlock(req[t].kind)
    /\ UNCHANGED <<workload, max_parallel_operations, loaders, editors, next_proc,
                   procVars, usage_tracker, done_hook, hook_done, bg_done,
                   clean_pending>>
    /\ tie' = [tie EXCEPT ![t] = held]

\* dbus.rs:195-199: the cancellable wins the select
handshake_cancel(t, held) ==
    /\ pc[t] = "handshake"
    /\ cancelled[t]
    /\ spawn_failed(t, held, "GLibError")
    /\ Settle(remote, sigkill(child, proc[t]), proc_cancelled, timeout, last_use)

\* dbus.rs:200-205: the child's exit wins the select.  The waiting thread
\* stores process_disconnected before it sends the exit status.
handshake_exit(t, held) ==
    /\ pc[t] = "handshake"
    /\ child[proc[t]] \in Dead
    /\ process_disconnected[proc[t]]
    /\ spawn_failed(t, held, "PrematureExit")
    /\ Keep

late_hook_missing(t) == child

\* dbus.rs:194 and 208-211: the handshake wins the select and the
\* late-cancel hook is connected to the process cancellable; it runs at
\* once when that cancellable has already fired through the tie.
late_hook_kill(t) == IF cancelled[t] THEN sigkill(child, proc[t]) ELSE child

\* dbus.rs:213-220: with the child killed by the late-cancel hook the
\* connection or the proxy cannot be built
finish_spawn_error(t, held) ==
    /\ pc[t] = "handshake"
    /\ child[proc[t]] = "running"
    /\ cancelled[t]
    /\ spawn_failed(t, held, "DbusError")
    /\ Settle(remote, late_hook_kill(t), proc_cancelled, timeout, last_use)

\* dbus.rs:194-230 and pool.rs:226-241: the handshake wins the select, the
\* RemoteProcess is built, the tie is disconnected, the process is pushed
\* to its bucket with a new tracker; the caller goes on with use_() and its
\* first worker call.
finish_spawn(t) ==
    /\ pc[t] = "handshake"
    /\ child[proc[t]] = "running"
    /\ LET p == proc[t]
           kind == req[t].kind
           h == hash_value(req[t]) IN
       /\ IF kind = "loader"
          THEN /\ loaders' = [loaders EXCEPT ![h] = Append(@, p)]
               /\ UNCHANGED editors
          ELSE /\ editors' = [editors EXCEPT ![h] = Append(@, p)]
               /\ UNCHANGED loaders
       /\ late_hook' = [late_hook EXCEPT ![p] = TRUE]
       /\ usage_tracker' = [usage_tracker EXCEPT ![t] = p]
       /\ tie' = [tie EXCEPT ![t] = FALSE]
       /\ pc' = [pc EXCEPT ![t] = first_call(op[t])]
       /\ lock' = unlock(kind)
       /\ UNCHANGED <<workload, max_parallel_operations, next_proc, spawned_with,
                      process_disconnected, op, req, proc, cancelled, done_hook,
                      hook_done, bg_done, clean_pending>>
       /\ quiet
       /\ Settle([remote EXCEPT ![p] = "live"], late_hook_kill(t),
                 [proc_cancelled EXCEPT ![p] = cancelled[t]], timeout, use_(p))

\* ---------------------------------------------------------------- worker
\* The worker exits or crashes on its own.
child_exit(p) ==
    /\ child[p] = "running"
    /\ UNCHANGED <<poolVars, procVars, taskVars>>
    /\ quiet
    /\ Settle(remote, [child EXCEPT ![p] = "exited"], proc_cancelled, timeout, last_use)

\* dbus.rs:148-149: child.wait() returns in the spawning thread
wait_thread(p) ==
    /\ child[p] \in Dead
    /\ remote[p] = "live" \/ \E t \in Tasks : pc[t] = "handshake" /\ proc[t] = p
    /\ ~process_disconnected[p]
    /\ process_disconnected' = [process_disconnected EXCEPT ![p] = TRUE]
    /\ UNCHANGED <<poolVars, spawned_with, late_hook, taskVars>>
    /\ quiet
    /\ Keep

\* dbus.rs:716-749: a reader of the child's stdout or stderr reaches EOF or
\* an error, the child being gone.
spawn_stdio_reader(p) ==
    /\ child[p] \in Dead
    /\ remote[p] = "live" \/ \E t \in Tasks : pc[t] = "handshake" /\ proc[t] = p
    /\ ~process_disconnected[p]
    /\ process_disconnected' = [process_disconnected EXCEPT ![p] = TRUE]
    /\ UNCHANGED <<poolVars, spawned_with, late_hook, taskVars>>
    /\ quiet
    /\ Keep

\* ---------------------------------------------------------------- cancellation
run_done_hook_of_worker(t, p) ==
    /\ hook_done' = [u \in Tasks |-> IF proc[u] = p THEN p ELSE hook_done[u]]
    /\ done_hook' = [done_hook EXCEPT ![t] = NoProc]

\* The closure load() and edit() connect to the operation's cancellable
\* (api_loader.rs:158-166, api_editor.rs:62-71) runs: it is consumed, and
\* process.use_().done(path) is spawned detached.
run_done_hook(t, p) ==
    /\ hook_done' = [hook_done EXCEPT ![t] = p]
    /\ done_hook' = [done_hook EXCEPT ![t] = NoProc]

\* connect_cancelled on a cancellable that has fired runs the closure at
\* once; otherwise the closure, with its Arc<PooledProcess>, is stored.
connect_done_hook(t, p) ==
    IF cancelled[t]
    THEN run_done_hook(t, p)
    ELSE /\ done_hook' = [done_hook EXCEPT ![t] = p]
         /\ UNCHANGED hook_done

\* The operation's cancellable fires.  While get_process' tie is connected
\* the process cancellable fires with it (pool.rs:207-214).
cancel(t) ==
    /\ ~cancelled[t]
    /\ pc[t] # "idle" \/ done_hook[t] # NoProc
    /\ cancelled' = [cancelled EXCEPT ![t] = (pc[t] # "idle")]
    /\ IF done_hook[t] # NoProc
       THEN run_done_hook(t, done_hook[t])
       ELSE UNCHANGED <<done_hook, hook_done>>
    /\ UNCHANGED <<poolVars, procVars, pc, op, req, proc, usage_tracker,
                   tie, bg_done, clean_pending>>
    /\ quiet
    /\ Settle(remote, child, proc_cancelled, timeout,
              IF done_hook[t] # NoProc THEN use_(done_hook[t]) ELSE last_use)

\* The caller gives up its reference to a cancellable that never fired:
\* the cancellable is finalized and the stored closure is dropped with it.
release_cancellable(t) ==
    /\ pc[t] = "idle"
    /\ done_hook[t] # NoProc \/ tie[t]
    /\ done_hook' = [done_hook EXCEPT ![t] = NoProc]
    /\ tie' = [tie EXCEPT ![t] = FALSE]
    /\ UNCHANGED <<poolVars, procVars, pc, op, req, proc, usage_tracker, cancelled,
                   hook_done, bg_done, clean_pending>>
    /\ quiet
    /\ Keep

\* the detached done() of the cancel handler completes
hook_done_return(t) ==
    /\ hook_done[t] # NoProc
    /\ hook_done' = [hook_done EXCEPT ![t] = NoProc]
    /\ UNCHANGED <<poolVars, procVars, pc, op, req, proc, usage_tracker, cancelled,
                   tie, done_hook, bg_done, clean_pending>>
    /\ quiet
    /\ Keep

\* ---------------------------------------------------------------- operations
\* The first call of an operation fails: `?` returns the error, mapped by
\* err_context, and the process context with its tracker is dropped.
first_call_error(t) ==
    /\ finish(t, err_context(cancelled[t], "RemoteError"))
    /\ proc' = [proc EXCEPT ![t] = NoProc]
    /\ usage_tracker' = [usage_tracker EXCEPT ![t] = NoProc]
    /\ UNCHANGED <<poolVars, procVars, tie, done_hook, hook_done, bg_done,
                   clean_pending>>
    /\ Settle(remote, child, proc_cancelled, release_tracker(t, timeout), last_use)

\* api_loader.rs:140-176: init() returns, the cancel handler is connected
\* and the Image takes the process and the usage tracker.
init_return(t) ==
    /\ pc[t] = "init"
    /\ child[proc[t]] = "running"
    /\ pc' = [pc EXCEPT ![t] = "loaded"]
    /\ returns(t, "Ok")
    /\ connect_done_hook(t, proc[t])
    /\ UNCHANGED <<poolVars, procVars, op, req, proc, usage_tracker, cancelled,
                   tie, bg_done, clean_pending>>
    /\ Settle(remote, child, proc_cancelled, timeout,
              IF cancelled[t] THEN use_(proc[t]) ELSE last_use)

\* api_loader.rs:146
init_error(t) ==
    /\ pc[t] = "init"
    /\ first_call_error(t)

\* Image::next_frame / specific_frame: use_() and request_frame
frame(t) ==
    /\ pc[t] = "loaded"
    /\ pc' = [pc EXCEPT ![t] = "frame"]
    /\ UNCHANGED <<poolVars, procVars, op, req, proc, usage_tracker, cancelled,
                   tie, done_hook, hook_done, bg_done,
                   clean_pending>>
    /\ quiet
    /\ Settle(remote, child, proc_cancelled, timeout, use_(proc[t]))

\* request_frame returns a frame, or an error mapped by err_context
frame_return(t) ==
    /\ pc[t] = "frame"
    /\ \E ok \in BOOLEAN :
         /\ ok => child[proc[t]] = "running"
         /\ returns(t, IF ok THEN "Ok" ELSE err_context(cancelled[t], "RemoteError"))
    /\ pc' = [pc EXCEPT ![t] = "loaded"]
    /\ UNCHANGED <<poolVars, procVars, op, req, proc, usage_tracker, cancelled,
                   tie, done_hook, hook_done, bg_done,
                   clean_pending>>
    /\ Keep

\* The Loader inside a dropped Image or EditableImage releases its
\* reference to the cancellable; unless the caller holds another one the
\* cancellable is finalized and the stored closure dropped.
finalize_cancellable(t, held) ==
    IF held THEN done_hook ELSE [done_hook EXCEPT ![t] = NoProc]

\* Drop for Image (api_loader.rs:234-247): a detached task takes the
\* process and the usage tracker, calls use_() and done().
drop_image(t, held) ==
    /\ pc[t] = "loaded"
    /\ pc' = [pc EXCEPT ![t] = "dropping"]
    /\ done_hook' = finalize_cancellable(t, held)
    /\ UNCHANGED <<poolVars, procVars, op, req, proc, usage_tracker, cancelled,
                   tie, hook_done, bg_done, clean_pending>>
    /\ quiet
    /\ Settle(remote, child, proc_cancelled, timeout, use_(proc[t]))

\* api_loader.rs:240-245: done() has returned, with or without error, and
\* the task drops the usage tracker and its process reference.
done_return(t) ==
    /\ pc[t] = "dropping"
    /\ finish(t, "none")
    /\ proc' = [proc EXCEPT ![t] = NoProc]
    /\ usage_tracker' = [usage_tracker EXCEPT ![t] = NoProc]
    /\ UNCHANGED <<poolVars, procVars, tie, done_hook, hook_done, bg_done,
                   clean_pending>>
    /\ Settle(remote, child, proc_cancelled, release_tracker(t, timeout), last_use)

\* api_editor.rs:55-80: edit() returns the EditableImage; the cancel handler
\* is connected, the EditableImage takes the process, and the usage tracker
\* of the process context is dropped with the rest of it.
edit_return(t) ==
    /\ pc[t] = "edit"
    /\ child[proc[t]] = "running"
    /\ pc' = [pc EXCEPT ![t] = "editable"]
    /\ returns(t, "Ok")
    /\ connect_done_hook(t, proc[t])
    /\ usage_tracker' = [usage_tracker EXCEPT ![t] = NoProc]
    /\ UNCHANGED <<poolVars, procVars, op, req, proc, cancelled, tie, bg_done, clean_pending>>
    /\ Settle(remote, child, proc_cancelled, release_tracker(t, timeout),
              IF cancelled[t] THEN use_(proc[t]) ELSE last_use)

\* api_editor.rs:60
edit_error(t) ==
    /\ pc[t] = "edit"
    /\ first_call_error(t)

\* EditableImage::apply_sparse / apply_complete: use_() and the call
apply(t) ==
    /\ pc[t] = "editable"
    /\ pc' = [pc EXCEPT ![t] = "apply"]
    /\ UNCHANGED <<poolVars, procVars, op, req, proc, usage_tracker, cancelled,
                   tie, done_hook, hook_done, bg_done,
                   clean_pending>>
    /\ quiet
    /\ Settle(remote, child, proc_cancelled, timeout, use_(proc[t]))

\* Drop for EditableImage (api_editor.rs:109-115): use_(), done_background()
\* spawns the detached done(), and clean_loaders() is spawned detached.
drop_editable_image(t, held, res) ==
    /\ finish(t, res)
    /\ bg_done' = [bg_done EXCEPT ![t] = proc[t]]
    /\ clean_pending' = [clean_pending EXCEPT ![t] = TRUE]
    /\ proc' = [proc EXCEPT ![t] = NoProc]
    /\ done_hook' = finalize_cancellable(t, held)
    /\ UNCHANGED <<poolVars, procVars, usage_tracker, tie, hook_done>>
    /\ Settle(remote, child, proc_cancelled, timeout, use_(proc[t]))

\* the caller drops an EditableImage it did not apply anything to
drop_editable(t, held) ==
    /\ pc[t] = "editable"
    /\ drop_editable_image(t, held, "none")

\* apply_sparse / apply_complete return; they took the EditableImage by
\* value and drop it on both paths.
apply_return(t, held) ==
    /\ pc[t] = "apply"
    /\ \E ok \in BOOLEAN :
         /\ ok => child[proc[t]] = "running"
         /\ drop_editable_image(t, held,
                IF ok THEN "Ok" ELSE err_context(cancelled[t], "RemoteError"))

\* the detached done() of done_background completes
bg_done_return(t) ==
    /\ bg_done[t] # NoProc
    /\ bg_done' = [bg_done EXCEPT ![t] = NoProc]
    /\ UNCHANGED <<poolVars, procVars, pc, op, req, proc, usage_tracker, cancelled,
                   tie, done_hook, hook_done, clean_pending>>
    /\ quiet
    /\ Keep

\* api_creator.rs:157-163: create() returns the encoded image and the
\* process context with its tracker is dropped.
create_return(t) ==
    /\ pc[t] = "create"
    /\ child[proc[t]] = "running"
    /\ finish(t, "Ok")
    /\ proc' = [proc EXCEPT ![t] = NoProc]
    /\ usage_tracker' = [usage_tracker EXCEPT ![t] = NoProc]
    /\ UNCHANGED <<poolVars, procVars, tie, done_hook, hook_done, bg_done,
                   clean_pending>>
    /\ Settle(remote, child, proc_cancelled, release_tracker(t, timeout), last_use)

\* api_creator.rs:162
create_error(t) ==
    /\ pc[t] = "create"
    /\ first_call_error(t)

\* ---------------------------------------------------------------- clean_loaders
evictable_when_idle(p) == last_use[p] > loader_retention_time

\* pool.rs:255-262: the processes clean_loaders drops
evictable(p) == n_users(p) = 0 /\ last_use[p] > loader_retention_time

\* Vec::retain over every bucket of a map
retain(map) ==
    [h \in DOMAIN map |-> SelectSeq(map[h], LAMBDA p : ~evictable(p))]

\* pool.rs:244-271: clean_loaders goes through self.loaders only
cleaned_editors == editors

\* Pool::clean_loaders, under the lock of the loader map
clean_loaders ==
    /\ lock["loader"] = NoTask
    /\ loaders' = retain(loaders)
    /\ editors' = cleaned_editors
    /\ UNCHANGED <<workload, max_parallel_operations, lock, next_proc, procVars>>

\* pool.rs:38-50: the timer armed by UsageTracker::drop runs clean_loaders
timer_fires(p) ==
    /\ timeout[p] # NoTimer
    /\ timeout[p] > loader_retention_time
    /\ clean_loaders
    /\ UNCHANGED taskVars
    /\ quiet
    /\ Settle(remote, child, proc_cancelled, [timeout EXCEPT ![p] = NoTimer], last_use)

\* api_editor.rs:113: the clean_loaders() spawned by Drop for EditableImage
detached_clean(t) ==
    /\ clean_pending[t]
    /\ clean_loaders
    /\ clean_pending' = [clean_pending EXCEPT ![t] = FALSE]
    /\ UNCHANGED <<pc, op, req, proc, usage_tracker, cancelled, tie, done_hook, hook_done, bg_done>>
    /\ quiet
    /\ Keep

\* ---------------------------------------------------------------- time
Saturated == loader_retention_time + 1

elapse(x) == IF x = NoTimer THEN x ELSE Saturated

\* More than the retention time passes.
tick ==
    /\ \E p \in Procs :
         \/ InPool(p) /\ last_use[p] < Saturated
         \/ timeout[p] # NoTimer /\ timeout[p] < Saturated
    /\ UNCHANGED <<poolVars, procVars, taskVars>>
    /\ quiet
    /\ Settle(remote, child, proc_cancelled,
              [p \in Procs |-> elapse(timeout[p])],
              [p \in Procs |-> elapse(last_use[p])])

\* ---------------------------------------------------------------- Spec
\* What the callers in `callers` do without cancelling: fired and held say
\* whether their cancellable may have fired before the operation starts and
\* whether they keep a reference to it.
Operate(callers, fired, held) ==
    \/ \E t \in callers, f \in fired : get_process(t, f)
    \/ \E t \in callers, f \in fired, h \in held : spawn_error(t, f, h)
    \/ \E t \in callers, h \in held : handshake_exit(t, h)
    \/ \E t \in callers : finish_spawn(t)
    \/ \E t \in callers : init_return(t)
    \/ \E t \in callers : init_error(t)
    \/ \E t \in callers : frame(t)
    \/ \E t \in callers : frame_return(t)
    \/ \E t \in callers, h \in held : drop_image(t, h)
    \/ \E t \in callers : done_return(t)
    \/ \E t \in callers : edit_return(t)
    \/ \E t \in callers : edit_error(t)
    \/ \E t \in callers : apply(t)
    \/ \E t \in callers, h \in held : drop_editable(t, h)
    \/ \E t \in callers, h \in held : apply_return(t, h)
    \/ \E t \in callers : bg_done_return(t)
    \/ \E t \in callers : create_return(t)
    \/ \E t \in callers : create_error(t)
    \/ \E t \in callers : detached_clean(t)

\* The workers, the timers and the clock.
Environment ==
    \/ \E p \in Procs : child_exit(p)
    \/ \E p \in Procs : wait_thread(p)
    \/ \E p \in Procs : spawn_stdio_reader(p)
    \/ \E p \in Procs : timer_fires(p)
    \/ tick

\* What cancelling callers do on top.
Cancellation(callers, held) ==
    \/ \E t \in callers : cancel(t)
    \/ \E t \in callers : release_cancellable(t)
    \/ \E t \in callers : hook_done_return(t)
    \/ \E t \in callers, h \in held : handshake_cancel(t, h)
    \/ \E t \in callers, h \in held : finish_spawn_error(t, h)

\* Callers that never cancel and keep no cancellable of their own.
Next == Operate(Tasks, {FALSE}, {FALSE}) \/ Environment

Spec == Init /\ [][Next]_vars

OneCaller == {1}

\* One caller that may cancel at any time and may keep its cancellable.
NextCancel ==
    \/ Operate(OneCaller, BOOLEAN, BOOLEAN)
    \/ Cancellation(OneCaller, BOOLEAN)
    \/ Environment

SpecCancel == Init /\ [][NextCancel]_vars

\* One caller whose requests differ in every part of the pool's key.
InitKeys == InitWith(KeysWorkload) /\ SideIdle

NextKeys == Operate(OneCaller, {FALSE}, {FALSE}) \/ Environment

SpecKeys == InitKeys /\ [][NextKeys]_vars

\* ---------------------------------------------------------------- one image
\* The calls on one Image or EditableImage, after load() or edit() returned
\* it, and the object the worker serves them with.  The worker answers each
\* request in a task of its own, so a done() is served while a frame() or an
\* apply_*() of the same object waits in its select.

set_nothing(gate) == gate

\* OnceCell::set in the worker's done handler
set(gate) == TRUE

\* the cancel handler connected by load() / edit() and the drop of the image
\* each spawn a detached done(path)
send_done == done_calls' = done_calls + 1

\* is_cancelled() of the operation's cancellable
is_cancelled == cancel_fired # "no"

\* Image::next_frame / specific_frame, EditableImage::apply_sparse /
\* apply_complete: the request is sent.
send_call ==
    /\ image \in {"image", "editable"}
    /\ call = "none"
    /\ call' = "sent"
    /\ outcome' = "none"
    /\ cancel_fired' = IF is_cancelled THEN "before" ELSE "no"
    /\ UNCHANGED <<image, done_calls, registered, dropped_gate, frame_request, reply>>
    /\ UNCHANGED exceptCall

\* dbus_loader_api.rs:96-109, dbus_editor_api.rs:225-236: the request reaches
\* the object and the decoder is started on a blocking thread; a request for
\* a path that is no longer served is answered with an error.
worker_call ==
    /\ call = "sent"
    /\ IF registered
       THEN /\ call' = "running"
            /\ frame_request' = "running"
            /\ UNCHANGED reply
       ELSE /\ call' = "replied"
            /\ reply' = "UnknownObject"
            /\ UNCHANGED frame_request
    /\ UNCHANGED <<image, cancel_fired, done_calls, registered, dropped_gate, outcome>>
    /\ UNCHANGED exceptCall

\* LoaderImplementation::frame / EditorImplementation::apply_* returns on
\* its thread, while the handler waits for it or after the handler is gone.
unblock_returns ==
    /\ frame_request = "running"
    /\ \E r \in {"Ok", "LoaderError"} :
         frame_request' = IF call = "running" THEN r ELSE "none"
    /\ UNCHANGED <<image, call, cancel_fired, done_calls, registered, dropped_gate,
                   reply, outcome>>
    /\ UNCHANGED exceptCall

\* dbus_loader_api.rs:111-114, dbus_editor_api.rs:239-242: the select of the
\* handler, either arm that is ready
worker_select ==
    /\ call = "running"
    /\ \/ /\ frame_request \in {"Ok", "LoaderError"}
          /\ reply' = frame_request
          /\ frame_request' = "none"
       \/ /\ dropped_gate
          /\ reply' = "Aborted"
          /\ frame_request' = IF frame_request = "running" THEN "running" ELSE "none"
    /\ call' = "replied"
    /\ UNCHANGED <<image, cancel_fired, done_calls, registered, dropped_gate, outcome>>
    /\ UNCHANGED exceptCall

\* dbus_loader_api.rs:117-130, dbus_editor_api.rs:265-280: the done handler
\* removes the object and sets the gate; a done for a path that is no longer
\* served is answered with an error nobody looks at.
worker_done ==
    /\ done_calls > 0
    /\ done_calls' = done_calls - 1
    /\ IF registered
       THEN /\ registered' = FALSE
            /\ dropped_gate' = set(dropped_gate)
       ELSE UNCHANGED <<registered, dropped_gate>>
    /\ UNCHANGED <<image, call, cancel_fired, frame_request, reply, outcome>>
    /\ UNCHANGED exceptCall

\* The reply reaches the host: api_loader.rs:255-278 and api_editor.rs:123-146
\* map an error with err_context.  apply_* took the EditableImage by value
\* and drops it (api_editor.rs:109-115).
receive_reply ==
    /\ call = "replied"
    /\ call' = "none"
    /\ reply' = "none"
    /\ outcome' = IF reply = "Ok" THEN "Ok" ELSE err_context(is_cancelled, reply)
    /\ IF image = "editable"
       THEN image' = "gone" /\ send_done
       ELSE UNCHANGED <<image, done_calls>>
    /\ UNCHANGED <<cancel_fired, registered, dropped_gate, frame_request>>
    /\ UNCHANGED exceptCall

\* The operation's cancellable fires and runs the handler of
\* api_loader.rs:158-166 / api_editor.rs:62-71.
cancel_call ==
    /\ image \in {"image", "editable"}
    /\ cancel_fired = "no"
    /\ cancel_fired' = IF call = "none" THEN "before" ELSE "in_flight"
    /\ send_done
    /\ UNCHANGED <<image, call, registered, dropped_gate, frame_request, reply, outcome>>
    /\ UNCHANGED exceptCall

\* Drop for Image (api_loader.rs:234-247), Drop for EditableImage
drop_held_image ==
    /\ image \in {"image", "editable"}
    /\ call = "none"
    /\ image' = "gone"
    /\ send_done
    /\ UNCHANGED <<call, cancel_fired, registered, dropped_gate, frame_request, reply,
                   outcome>>
    /\ UNCHANGED exceptCall

InitCall ==
    /\ InitWith(PoolWorkload)
    /\ \E img \in {"image", "editable"} : CallIdle(img)
    /\ ErrIdle /\ SpawnIdle /\ RestIdle

NextCall ==
    \/ send_call
    \/ worker_call
    \/ unblock_returns
    \/ worker_select
    \/ worker_done
    \/ receive_reply
    \/ cancel_call
    \/ drop_held_image

\* Requests and replies are delivered and every task of the worker and of
\* the host is run; the decoder may take for ever.
SpecCall ==
    /\ InitCall
    /\ [][NextCall]_vars
    /\ WF_vars(worker_call)
    /\ WF_vars(worker_select)
    /\ WF_vars(worker_done)
    /\ WF_vars(receive_reply)

\* ---------------------------------------------------------------- errors
\* Error as its variant and the rest of what Display prints
Error(variant, detail) == [variant |-> variant, detail |-> detail]

\* impl Display for Error (thiserror)
to_string(err) == err.variant \o ": " \o err.detail

\* Error::Canceled(Some(text))
Canceled(text) == Error("Canceled", text)

map_unchanged(is_c, err) == err

\* error.rs:88-92 and 107-111
map_cancelled(is_c, err) == IF is_c THEN Canceled(to_string(err)) ELSE err

\* error.rs:78-102, ResultExt::err_context with the process' captured output
err_with_context(err, stderr_content, stdout_content, is_c) ==
    [error |-> map_cancelled(is_c, err),
     stderr |-> stderr_content, stdout |-> stdout_content]

\* error.rs:104-115, ResultExt::err_no_context over ErrorCtx::from_error
err_no_context(err, is_c) ==
    [error |-> map_cancelled(is_c, err), stderr |-> "None", stdout |-> "None"]

\* What the calls of the operations can fail with.
SpinUpErrors ==
    {Error("GLibError", "cancelled"), Error("UnknownImageFormat", "image/x"),
     Error("SpawnError", "bwrap"), Error("PrematureExit", "2"),
     Error("DbusError", "handshake")}
RemoteErrors ==
    {Error("RemoteError", "LoadingError"), Error("RemoteError", "Aborted"),
     Error("DbusError", "UnknownObject")}
FrameErrors ==
    RemoteErrors \cup {Error("TextureTooLarge", ""), Error("StrideTooSmall", "frame")}

\* Every `?` of the operations that return ErrorCtx, with the extension
\* method applied to the error: Loader::load (api_loader.rs:128-146),
\* Image::next_frame / specific_frame (255-278), Editor::edit
\* (api_editor.rs:43-60), EditableImage::apply_sparse / apply_complete
\* (123-146), Creator::create (api_creator.rs:139-162).
Site(op_, call_, ext, errors) == [op |-> op_, call |-> call_, ext |-> ext, errors |-> errors]
Sites ==
    {Site("load", "spin_up_loader", "err_no_context", SpinUpErrors),
     Site("load", "init", "err_context", RemoteErrors),
     Site("next_frame", "request_frame", "err_context", FrameErrors),
     Site("specific_frame", "request_frame", "err_context", FrameErrors),
     Site("edit", "spin_up_editor", "err_no_context", SpinUpErrors),
     Site("edit", "edit", "err_context", RemoteErrors),
     Site("apply_sparse", "editor_apply_sparse", "err_context", RemoteErrors),
     Site("apply_sparse", "SparseEdit::try_from", "err_no_context",
          {Error("RemoteError", "InternalLoaderError")}),
     Site("apply_complete", "editor_apply_complete", "err_context", RemoteErrors),
     Site("create", "spin_up_encoder", "err_no_context", SpinUpErrors),
     Site("create", "frame", "err_no_context", {Error("MemFd", "create")}),
     Site("create", "create", "err_context", RemoteErrors)}

\* what the worker wrote before it failed
Captured == {"", "panicked"}

\* A call of an operation fails and `?` returns the mapped error.
operation_fails ==
    /\ \E s \in Sites, c \in BOOLEAN, se \in Captured, so \in Captured :
       \E e \in s.errors :
         /\ failure' = [op |-> s.op, call |-> s.call, ext |-> s.ext, err |-> e,
                        is_cancelled |-> c, stderr_content |-> se,
                        stdout_content |-> so]
         /\ surfaced' = IF s.ext = "err_context"
                        THEN err_with_context(e, se, so, c)
                        ELSE err_no_context(e, c)
    /\ UNCHANGED exceptErr

InitErr == InitWith(PoolWorkload) /\ SideIdle

NextErr == operation_fails

SpecErr == InitErr /\ [][NextErr]_vars

\* ---------------------------------------------------------------- handshake
\* exit codes of a worker; instruction_handler.rs:56-64 exits with 2
ExitCodes == {0, 1, 2}

\* A step that changes spawn only
spawn_step(next) == spawn' = next /\ UNCHANGED exceptSpawn

\* RemoteProcess::new returns
spawn_returns(sp, res) == [sp EXCEPT !.stage = "returned", !.returned = res]

\* instruction_handler.rs:74-90: the worker builds its end of the connection
worker_connects ==
    /\ spawn.stage # "none" /\ spawn.child = "running" /\ spawn.dbus_result = "pending"
    /\ spawn_step([spawn EXCEPT !.dbus_result = "Ok"])

\* The worker exits; `early` keeps whether the handshake was still pending.
worker_exits ==
    /\ spawn.stage # "none" /\ spawn.child = "running"
    /\ \E code \in ExitCodes :
         spawn_step([spawn EXCEPT !.child = "exited", !.status = code,
                                  !.early = (spawn.dbus_result = "pending")])

\* dbus.rs:148-156: child.wait() returns in the spawning thread, which sends
\* the exit status to child_return
thread_sends ==
    /\ spawn.thread = "wait" /\ spawn.child # "running"
    /\ spawn_step([spawn EXCEPT !.thread = "sent"])

\* dbus.rs:107-160: the thread's closure ends and drops what is left of
\* spawned_sandbox, the host's copy of the worker's socket end
\* (sandbox.rs:180-182) included; a handshake that was not done fails.
thread_ends ==
    /\ spawn.thread = "sent"
    /\ spawn_step([spawn EXCEPT !.thread = "ended",
                     !.dbus_result = IF @ = "pending" THEN "Err" ELSE @])

\* the caller's cancellable fires
spawn_cancelled ==
    /\ spawn.stage \in {"select", "built"} /\ ~spawn.cancellable
    /\ spawn_step([spawn EXCEPT !.cancellable = TRUE,
                     !.child = IF spawn.stage = "built" /\ @ = "running" THEN "killed" ELSE @])

\* dbus.rs:193-206: the select takes an arm that is ready
select_dbus_result ==
    /\ spawn.stage = "select" /\ spawn.dbus_result # "pending"
    /\ spawn_step([spawn EXCEPT !.stage = "selected"])

select_cancellable ==
    /\ spawn.stage = "select" /\ spawn.cancellable
    /\ spawn_step(spawn_returns(
           [spawn EXCEPT !.child = IF @ = "running" THEN "killed" ELSE @],
           Error("GLibError", "cancelled")))

select_child_return ==
    /\ spawn.stage = "select" /\ spawn.thread \in {"sent", "ended"}
    /\ spawn_step(spawn_returns(spawn,
           IF spawn.child = "exited" THEN Error("PrematureExit", ToString(spawn.status))
                                     ELSE Error("PrematureExit", "SIGKILL")))

\* dbus.rs:208-230: the late hook is connected, dbus_result.await? and the
\* proxy build follow; with the worker gone the proxy may or may not be built
build_remote_process ==
    /\ spawn.stage = "selected"
    /\ LET hooked == [spawn EXCEPT !.child = IF spawn.cancellable /\ @ = "running"
                                           THEN "killed" ELSE @] IN
       \/ /\ spawn.dbus_result = "Err" \/ hooked.child # "running"
          /\ spawn_step(spawn_returns(hooked, Error("DbusError", "handshake")))
       \/ /\ spawn.dbus_result = "Ok"
          /\ spawn_step([hooked EXCEPT !.stage = "built", !.returned = Error("Ok", "")])

InitSpawn ==
    /\ InitWith(PoolWorkload)
    /\ CallIdle("none")
    /\ ErrIdle
    /\ RestIdle
    /\ spawn = AtSelect

NextSpawn ==
    \/ worker_connects
    \/ worker_exits
    \/ thread_sends
    \/ thread_ends
    \/ spawn_cancelled
    \/ select_dbus_result
    \/ select_cancellable
    \/ select_child_return
    \/ build_remote_process

SpecSpawn == InitSpawn /\ [][NextSpawn]_vars

\* ---------------------------------------------------------------- one frame
\* RemoteProcess::request_frame after the worker replied
\* (glycin/src/dbus.rs:310-397).  Sizes are WordBits-bit where the source has
\* 32 bits and 2*WordBits-bit where it has 64, so that the overflows of the
\* source happen at sizes that can be enumerated.
WordBits == 8
U32Max == 2^WordBits - 1
I32Max == 2^(WordBits - 1) - 1
USizeMax == 2^(2 * WordBits) - 1

\* Max texture size: 8 * 10^9 bytes, which is 1.863 * 2^32.
MAX_TEXTURE_SIZE == (2^WordBits * 1863) \div 1000

\* DimensionTooLargerError as the value of a checked operation.
DimensionTooLargerError == 0 - 1

\* MemoryFormat::n_bytes
n_bytes(memory_format) ==
    CASE memory_format = "G8" -> 1
      [] memory_format = "R8g8b8" -> 3
      [] memory_format = "R8g8b8a8" -> 4
      [] OTHER -> 0

\* SafeMath of the type whose largest value is max.
smul(a, b, max) ==
    IF a = DimensionTooLargerError \/ b = DimensionTooLargerError \/ a * b > max
    THEN DimensionTooLargerError ELSE a * b

sadd(a, b, max) ==
    IF a = DimensionTooLargerError \/ b = DimensionTooLargerError \/ a + b > max
    THEN DimensionTooLargerError ELSE a + b

\* SafeMath::srem of u32 and u64 is written with checked_add.
srem(a, b, max) == sadd(a, b, max)

\* `as u32`
as_u32(n) == n % (U32Max + 1)

\* Frame::n_bytes
frame_n_bytes(f) == smul(f.stride, f.height, USizeMax)

\* The order of the checks of validate_frame.
validate_in_order(f, len) ==
    CASE frame_n_bytes(f) = DimensionTooLargerError -> "ConversionTooLargerError"
      [] len < frame_n_bytes(f) -> "TextureWrongSize"
      [] smul(f.width, n_bytes(f.memory_format), U32Max) = DimensionTooLargerError
            -> "ConversionTooLargerError"
      [] f.stride < smul(f.width, n_bytes(f.memory_format), U32Max) -> "StrideTooSmall"
      [] f.width < 1 \/ f.height < 1 -> "WidgthOrHeightZero"
      [] smul(f.stride, f.height, USizeMax) = DimensionTooLargerError
            -> "ConversionTooLargerError"
      [] smul(f.stride, f.height, USizeMax) > MAX_TEXTURE_SIZE -> "TextureTooLarge"
      [] f.width > I32Max \/ f.height > I32Max -> "ConversionTooLargerError"
      [] OTHER -> "Ok"

\* A validation that lets every frame pass.
validate_nothing(f, len) == "Ok"

\* validate_frame
validate_frame(f, len) == validate_in_order(f, len)

\* change_orientation: a quarter turn copies the pixels into a new vector
\* and swaps width and height; the other orientations work in place.
change_orientation(buf, f, transformation) ==
    IF transformation \in {"_90", "_270"}
    THEN [img_buf |-> [kind |-> "Vec",
                       len |-> f.width * f.height * n_bytes(f.memory_format)],
          frame |-> [f EXCEPT !.width = f.height,
                              !.height = f.width,
                              !.stride = as_u32(f.height * n_bytes(f.memory_format))],
          error |-> "Ok"]
    ELSE [img_buf |-> buf, frame |-> f, error |-> "Ok"]

\* remove_stride_if_needed: the early return needs srem(..) = 0, the sum of
\* two positive numbers; the rows are packed and the buffer is resized.
remove_stride_if_needed(buf, f) ==
    LET width == smul(f.width, n_bytes(f.memory_format), USizeMax)
        packed == [f EXCEPT !.stride = width] IN
    CASE srem(f.stride, n_bytes(f.memory_format), U32Max) = DimensionTooLargerError
            -> [img_buf |-> buf, frame |-> f, error |-> "ConversionTooLargerError"]
      [] srem(f.stride, n_bytes(f.memory_format), U32Max) = 0
            -> [img_buf |-> buf, frame |-> f, error |-> "Ok"]
      [] width > U32Max \/ frame_n_bytes(packed) > USizeMax \div 2
            -> [img_buf |-> buf, frame |-> f, error |-> "ConversionTooLargerError"]
      [] OTHER
            -> [img_buf |-> [buf EXCEPT !.len = frame_n_bytes(packed)],
                frame |-> packed, error |-> "Ok"]

\* change_memory_format: nothing for the same format, otherwise a new
\* vector of height rows of width pixels of the target format.
change_memory_format(buf, f, target_format) ==
    LET new_stride == smul(f.width, n_bytes(target_format), U32Max)
        new_total_size == smul(f.height, new_stride, USizeMax) IN
    CASE f.memory_format = target_format
            -> [img_buf |-> buf, frame |-> f, error |-> "Ok"]
      [] new_total_size = DimensionTooLargerError
            -> [img_buf |-> buf, frame |-> f, error |-> "Editing"]
      [] OTHER
            -> [img_buf |-> [kind |-> "Vec", len |-> new_total_size],
                frame |-> [f EXCEPT !.stride = new_stride,
                                    !.memory_format = target_format],
                error |-> "Ok"]

\* What the worker can put into its reply.
Widths == {0, 1, 2, I32Max, I32Max + 1}
Heights == {0, 1, 2, (I32Max + 1) \div 2, I32Max, I32Max + 1}
Strides == {0, 3, 4, 8, U32Max}
MemoryFormats == {"G8", "R8g8b8", "R8g8b8a8"}
TextureSizes == {0, 8, 16, 3 * I32Max, 2 * (U32Max + 1)}

request_failed(error) ==
    request' = [request EXCEPT !.stage = "failed", !.result = error]

\* The host touches the pages of its mapping; pages past the end of a
\* texture the worker has shrunk raise SIGBUS.
touches_mapping(continue) ==
    \/ continue
    \/ /\ img_buf.kind = "MMap" /\ texture.len < img_buf.len
       /\ request' = [request EXCEPT !.stage = "crashed", !.result = "SIGBUS"]
       /\ UNCHANGED <<frame_, texture, img_buf>>

\* dbus.rs:312-317: seal the ICC profile, map the texture.  A texture of no
\* bytes may or may not be mappable.
map_texture ==
    /\ request.stage = "reply"
    /\ texture' = [texture EXCEPT !.color_icc_profile =
                                      IF @ = "None" THEN @ ELSE "sealed"]
    /\ \/ /\ img_buf' = [kind |-> "MMap", len |-> texture.len]
          /\ request' = [request EXCEPT !.stage = "mapped",
                                        !.texture_size = texture.len]
       \/ /\ texture.len = 0
          /\ request_failed("StdIoError")
          /\ UNCHANGED img_buf
    /\ UNCHANGED frame_
    /\ UNCHANGED exceptFrame

\* dbus.rs:319
validate ==
    /\ request.stage = "mapped"
    /\ IF validate_frame(frame_, img_buf.len) = "Ok"
       THEN request' = [request EXCEPT !.stage = "validated"]
       ELSE request_failed(validate_frame(frame_, img_buf.len))
    /\ UNCHANGED <<frame_, texture, img_buf>>
    /\ UNCHANGED exceptFrame

\* dbus.rs:321-325.  The orientation "_0" is also an image that does not
\* apply transformations or ignores the orientation.
apply_exif_orientation ==
    /\ request.stage = "validated"
    /\ touches_mapping(
        LET turned == change_orientation(img_buf, frame_, request.orientation) IN
        /\ frame_' = turned.frame
        /\ img_buf' = turned.img_buf
        /\ request' = [request EXCEPT !.stage = "oriented"]
        /\ UNCHANGED texture)
    /\ UNCHANGED exceptFrame

\* dbus.rs:329-358 without CICP: a readable ICC profile has the stride
\* removed and the transformation applied in place; a failed transformation
\* is only logged.  Resizing a mapped texture truncates the memfd.
apply_icc_profile ==
    /\ request.stage = "oriented"
    /\ IF texture.color_icc_profile = "None"
       THEN /\ request' = [request EXCEPT !.stage = "coloured"]
            /\ UNCHANGED <<frame_, texture, img_buf>>
       ELSE touches_mapping(
            LET packed == remove_stride_if_needed(img_buf, frame_) IN
            IF packed.error # "Ok"
            THEN /\ request_failed(packed.error)
                 /\ UNCHANGED <<frame_, texture, img_buf>>
            ELSE /\ frame_' = packed.frame
                 /\ img_buf' = packed.img_buf
                 /\ texture' = IF img_buf.kind = "MMap"
                               THEN [texture EXCEPT !.len = packed.img_buf.len]
                               ELSE texture
                 /\ request' = [request EXCEPT !.stage = "coloured"])
    /\ UNCHANGED exceptFrame

\* dbus.rs:360-371
convert_memory_format ==
    /\ request.stage = "coloured"
    /\ IF request.target_format = "None"
       THEN /\ request' = [request EXCEPT !.stage = "converted"]
            /\ UNCHANGED <<frame_, texture, img_buf>>
       ELSE touches_mapping(
            LET converted == change_memory_format(img_buf, frame_,
                                                  request.target_format) IN
            IF converted.error # "Ok"
            THEN /\ request_failed(converted.error)
                 /\ UNCHANGED <<frame_, texture, img_buf>>
            ELSE /\ frame_' = converted.frame
                 /\ img_buf' = converted.img_buf
                 /\ request' = [request EXCEPT !.stage = "converted"]
                 /\ UNCHANGED texture)
    /\ UNCHANGED exceptFrame

\* dbus.rs:373-397: a texture that is still mapped is sealed now and handed
\* out as the bytes of the whole memfd; a vector is handed out as it is.
return_frame ==
    /\ request.stage = "converted"
    /\ IF img_buf.kind = "MMap"
       THEN /\ texture' = [texture EXCEPT !.sealed = TRUE]
            /\ request' = [request EXCEPT !.stage = "returned", !.result = "Ok",
                                          !.buffer = texture.len]
       ELSE /\ request' = [request EXCEPT !.stage = "returned", !.result = "Ok",
                                          !.buffer = img_buf.len]
            /\ UNCHANGED texture
    /\ UNCHANGED <<frame_, img_buf>>
    /\ UNCHANGED exceptFrame

\* The worker keeps its own descriptor of the texture and can resize the
\* memfd for as long as it carries no seal.  Before the validation that is
\* one more reply the worker can send; afterwards it changes what was
\* validated.
worker_resizes ==
    /\ request.stage \in {"validated", "oriented", "coloured", "converted"}
    /\ ~texture.sealed
    /\ \E len \in TextureSizes \ {texture.len} :
        texture' = [texture EXCEPT !.len = len]
    /\ UNCHANGED <<frame_, img_buf, request>>
    /\ UNCHANGED exceptFrame

InitFrame ==
    /\ InitWith(PoolWorkload)
    /\ CallIdle("none") /\ ErrIdle /\ SpawnIdle /\ SourceIdle /\ CommandIdle /\ LaterIdle
    /\ \E w \in Widths, h \in Heights, s \in Strides, m \in MemoryFormats :
        frame_ = [width |-> w, height |-> h, stride |-> s, memory_format |-> m]
    /\ \E len \in TextureSizes, icc \in {"None", "unsealed"} :
        texture = [len |-> len, sealed |-> FALSE, color_icc_profile |-> icc]
    /\ img_buf = NoImgBuf
    /\ \E o \in {"_0", "_90", "_180"}, t \in {"None", "G8", "R8g8b8a8"} :
        request = [NoRequest EXCEPT !.stage = "reply", !.orientation = o,
                                    !.target_format = t, !.declared = frame_]

NextFrame ==
    \/ map_texture
    \/ validate
    \/ apply_exif_orientation
    \/ apply_icc_profile
    \/ convert_memory_format
    \/ return_frame
    \/ worker_resizes

SpecFrame == InitFrame /\ [][NextFrame]_vars

\* ---------------------------------------------------------------- sources
\* Source and its way into a GFileWorker (glycin/src/api_common.rs:112-150,
\* 193-201, glycin/src/dbus.rs:533-574).
File(of) == [kind |-> "File", of |-> of]
Stream(of) == [kind |-> "Stream", of |-> of]
TransferredStream == [kind |-> "TransferredStream", of |-> "none"]

\* Source::file
file(src) == IF src.kind = "File" THEN src ELSE NoSource

\* A send that leaves the source as it was.
send_keeping(src) == [sent |-> src, left |-> src]

\* Source::send: what is sent and what is left behind.
send(src) ==
    [sent |-> src,
     left |-> IF file(src) # NoSource THEN file(src) ELSE TransferredStream]

\* Source::to_stream when the read of a file succeeds: a file is opened
\* anew, a stream source hands out its one stream.
to_stream(src, by) ==
    CASE src.kind = "File" -> "read " \o src.of \o " for " \o by
      [] src.kind = "Stream" -> src.of
      [] OTHER -> "Err(TransferredStream)"

ReadErrors == {"Err(TransferredStream)", "Err(GLibError)"}

\* What a loader or editor can be made with: Loader::new, new_stream,
\* new_bytes (a MemoryInputStream of its own); Editor::new takes a file.
SourcesOf(o) ==
    IF o = "editor"
    THEN {File("a"), File("b")}
    ELSE {File("a"), File("b"), Stream("stream of " \o o), Stream("bytes of " \o o)}

\* Loader::load, Editor::edit and the first GlyLoader::load up to
\* GFileWorker::spawn: they take the loader by value, or the source out of
\* the GlyLoader, so each runs once.
load(o) ==
    /\ load_result[o] = "none"
    /\ source' = [source EXCEPT ![o] = send(source[o]).left]
    /\ g_file_worker' = [g_file_worker EXCEPT ![o] = send(source[o]).sent]
    /\ load_result' = [load_result EXCEPT ![o] = "spin_up"]
    /\ UNCHANGED reader
    /\ UNCHANGED exceptSource

\* GlyLoader::load on a loader whose file, stream and bytes were taken
\* (gobject/loader.rs:95-104).
gly_loader_load_again ==
    /\ load_result["gly_loader"] \notin {"none", "spin_up"}
    /\ load_result' = [load_result EXCEPT !["gly_loader"] = "LoaderUsedTwice"]
    /\ UNCHANGED <<source, g_file_worker, reader>>
    /\ UNCHANGED exceptSource

\* The thread of the GFileWorker gets its reader (dbus.rs:542); opening a
\* file can fail.
g_file_worker_reads(o) ==
    /\ g_file_worker[o] # NoSource
    /\ reader[o] = "none"
    /\ \/ reader' = [reader EXCEPT ![o] = to_stream(g_file_worker[o], o)]
       \/ /\ g_file_worker[o].kind = "File"
          /\ reader' = [reader EXCEPT ![o] = "Err(GLibError)"]
    /\ UNCHANGED <<source, g_file_worker, load_result>>
    /\ UNCHANGED exceptSource

\* The operation returns once the first bytes or the error are there.
load_returns(o) ==
    /\ load_result[o] = "spin_up"
    /\ reader[o] # "none"
    /\ load_result' = [load_result EXCEPT ![o] =
                          IF reader[o] \in ReadErrors THEN reader[o] ELSE "Ok"]
    /\ UNCHANGED <<source, g_file_worker, reader>>
    /\ UNCHANGED exceptSource

InitSource ==
    /\ InitWith(PoolWorkload)
    /\ CallIdle("none") /\ ErrIdle /\ SpawnIdle /\ FrameIdle /\ CommandIdle /\ LaterIdle
    /\ source \in [Owners -> UNION {SourcesOf(o) : o \in Owners}]
    /\ \A o \in Owners : source[o] \in SourcesOf(o)
    /\ g_file_worker = [o \in Owners |-> NoSource]
    /\ reader = [o \in Owners |-> "none"]
    /\ load_result = [o \in Owners |-> "none"]

NextSource ==
    \/ \E o \in Owners : load(o)
    \/ gly_loader_load_again
    \/ \E o \in Owners : g_file_worker_reads(o)
    \/ \E o \in Owners : load_returns(o)

SpecSource == InitSource /\ [][NextSource]_vars

\* ---------------------------------------------------------------- sandbox
\* The command of a worker and the address-space limit of the process it
\* starts (glycin/src/sandbox.rs:210-582).  Sizes are in MiB.

\* Larger than every size looked at.
RLIM_INFINITY == 2^30

\* A /proc/meminfo that cannot be read, and readings of MemAvailable plus
\* SwapFree.
NoMemInfo == 0 - 1
MemAvailable == {NoMemInfo, 0, 100, 200, 1224, 4296, 20480, 40960}

saturating_sub(a, b) == IF a < b THEN 0 ELSE a - b

\* Sandbox::calculate_memory_limit: at most 20 GiB are considered, 200 MiB
\* are kept free, 80 % of the rest may be used.
calculate_memory_limit(mem_available) ==
    LET mem_considered ==
            saturating_sub(IF mem_available < 20 * 1024 THEN mem_available
                           ELSE 20 * 1024, 200) IN
    (mem_considered * 8) \div 10

\* Sandbox::memory_limit, with 1 GiB when nothing is known.
memory_limit(mem_available) ==
    IF mem_available # NoMemInfo
    THEN calculate_memory_limit(mem_available)
    ELSE 1024

\* The limits the host process itself can run under.
InheritedLimits == {RLIM_INFINITY, 512}

\* Sandbox::bwrap_command: the limit is set in the child before exec.
bwrap_command ==
    /\ command.stage = "spawn" /\ command.mechanism = "Bwrap"
    /\ command' = [command EXCEPT !.stage = "command",
                                  !.pre_exec = {"set_memory_limit"}]
    /\ UNCHANGED exceptCommand

\* Sandbox::flatpak_spawn_command: the worker is started through
\* prlimit --as=<memory_limit>.
flatpak_spawn_command ==
    /\ command.stage = "spawn" /\ command.mechanism = "FlatpakSpawn"
    /\ \E mem_available \in MemAvailable :
        command' = [command EXCEPT !.stage = "command",
                                   !.memory_limit = memory_limit(mem_available),
                                   !.prlimit_as = memory_limit(mem_available),
                                   !.pre_exec = {"set_pdeathsig"}]
    /\ UNCHANGED exceptCommand

\* Sandbox::no_sandbox_command
no_sandbox_command ==
    /\ command.stage = "spawn" /\ command.mechanism = "NotSandboxed"
    /\ command' = [command EXCEPT !.stage = "command",
                                  !.pre_exec = {"set_pdeathsig"}]
    /\ UNCHANGED exceptCommand

\* setrlimit(RLIMIT_AS, limit, limit) by a process without privileges:
\* the hard limit cannot be raised.
setrlimit(current, limit) == IF limit <= current THEN limit ELSE Unset

\* The child between fork and exec runs the pre_exec closures.
\* Sandbox::set_memory_limit reads the memory then and only reports a
\* failed setrlimit on stderr.
child_pre_exec ==
    /\ command.stage = "command"
    /\ IF "set_memory_limit" \in command.pre_exec
       THEN \E mem_available \in MemAvailable :
            LET limit == memory_limit(mem_available) IN
            command' = [command EXCEPT
                           !.stage = "exec",
                           !.memory_limit = limit,
                           !.rlimit_as = IF setrlimit(@, limit) = Unset
                                         THEN @ ELSE setrlimit(@, limit)]
       ELSE command' = [command EXCEPT !.stage = "exec"]
    /\ UNCHANGED exceptCommand

\* exec: the worker binary, or prlimit, which sets the limit and then
\* starts the worker binary, or gives up.
worker_starts ==
    /\ command.stage = "exec"
    /\ IF command.prlimit_as = Unset
       THEN command' = [command EXCEPT !.stage = "running"]
       ELSE IF setrlimit(command.rlimit_as, command.prlimit_as) = Unset
       THEN command' = [command EXCEPT !.stage = "failed"]
       ELSE command' = [command EXCEPT !.stage = "running",
                                       !.rlimit_as = command.prlimit_as]
    /\ UNCHANGED exceptCommand

\* The worker maps more memory; the kernel refuses what would exceed
\* RLIMIT_AS.
AllocationSizes == {256, 1024}
MaxAllocated == 2048

worker_allocates ==
    /\ command.stage = "running"
    /\ \E size \in AllocationSizes :
        /\ command.allocated + size <= command.rlimit_as
        /\ command.allocated + size <= MaxAllocated
        /\ command' = [command EXCEPT !.allocated = @ + size]
    /\ UNCHANGED exceptCommand

InitCommand ==
    /\ InitWith(PoolWorkload)
    /\ CallIdle("none") /\ ErrIdle /\ SpawnIdle /\ FrameIdle /\ SourceIdle /\ LaterIdle
    /\ \E mechanism \in {"Bwrap", "FlatpakSpawn", "NotSandboxed"},
          inherited \in InheritedLimits :
        command = [NoCommand EXCEPT !.mechanism = mechanism, !.stage = "spawn",
                                    !.rlimit_as = inherited]

NextCommand ==
    \/ bwrap_command
    \/ flatpak_spawn_command
    \/ no_sandbox_command
    \/ child_pre_exec
    \/ worker_starts
    \/ worker_allocates

SpecCommand == InitCommand /\ [][NextCommand]_vars

\* ---------------------------------------------------------------- descriptors
\* What the child of Sandbox::spawn has open (glycin/src/sandbox.rs:210-266).
MaxFd == 6
Fds == 0..MaxFd
Stdio == {0, 1, 2}

Closed == [what |-> "closed", cloexec |-> FALSE]
Open(what, cloexec) == [what |-> what, cloexec |-> cloexec]

\* shared_fds: the seccomp memfd under bwrap, and the dbus socket.
shared_fds(table, mechanism) ==
    {fd \in Fds : \/ table[fd].what = "dbus_socket"
                  \/ mechanism = "Bwrap" /\ table[fd].what = "seccomp_memfd"}

\* A close_range that marks nothing.
close_range_nothing(table, first) == table

\* close_range(first, MAX, CLOSE_RANGE_CLOEXEC)
close_range(table, first) ==
    [fd \in Fds |-> IF fd >= first /\ table[fd] # Closed
                    THEN [table[fd] EXCEPT !.cloexec = TRUE]
                    ELSE table[fd]]

\* fcntl F_GETFD / F_SETFD without FD_CLOEXEC for each shared descriptor.
allow_fds(table, shared) ==
    [fd \in Fds |-> IF fd \in shared /\ table[fd] # Closed
                    THEN [table[fd] EXCEPT !.cloexec = FALSE]
                    ELSE table[fd]]

\* Command::spawn forks; the child gets the table of the host with the
\* three pipes of stdin, stdout and stderr in place.
fork_child ==
    /\ fds.stage = "spawn"
    /\ fds' = [fds EXCEPT !.stage = "forked",
                          !.table = [fd \in Fds |-> IF fd \in Stdio
                                                    THEN Open("pipe", FALSE)
                                                    ELSE @[fd]]]
    /\ UNCHANGED exceptFds

\* The pre_exec closure of Sandbox::spawn (sandbox.rs:245-261).
pre_exec ==
    /\ fds.stage = "forked"
    /\ fds' = [fds EXCEPT !.stage = "pre_exec",
                          !.table = allow_fds(close_range(@, 3),
                                              shared_fds(@, fds.mechanism))]
    /\ UNCHANGED exceptFds

\* exec closes what is marked close-on-exec.
exec ==
    /\ fds.stage = "pre_exec"
    /\ fds' = [fds EXCEPT !.stage = "worker",
                          !.table = [fd \in Fds |-> IF @[fd].cloexec THEN Closed
                                                    ELSE @[fd]]]
    /\ UNCHANGED exceptFds

\* The host when Sandbox::spawn is called: its own stdio, the dbus socket,
\* under bwrap the seccomp memfd, and whatever else it has open, with or
\* without close-on-exec.
HostTables(mechanism) ==
    {[fd \in Fds |-> IF fd \in Stdio THEN Open("host", FALSE) ELSE rest[fd]] :
        rest \in
            {r \in [Fds \ Stdio -> {Closed} \cup {Open(what, cloexec) :
                            what \in {"host", "dbus_socket", "seccomp_memfd"},
                            cloexec \in BOOLEAN}] :
                /\ Cardinality({fd \in Fds \ Stdio : r[fd].what = "dbus_socket"}) = 1
                /\ Cardinality({fd \in Fds \ Stdio : r[fd].what = "seccomp_memfd"})
                    = IF mechanism = "Bwrap" THEN 1 ELSE 0}}

InitFds ==
    /\ InitWith(PoolWorkload)
    /\ FirstIdle /\ FnIdle /\ DecoderIdle /\ ConfigIdle
    /\ \E mechanism \in {"Bwrap", "FlatpakSpawn", "NotSandboxed"} :
       \E table \in HostTables(mechanism) :
        fds = [mechanism |-> mechanism, stage |-> "spawn", host |-> table,
               table |-> table]

NextFds ==
    \/ fork_child
    \/ pre_exec
    \/ exec

SpecFds == InitFds /\ [][NextFds]_vars

\* ---------------------------------------------------------------- sparse edits
\* SparseEdit::try_from(SparseEditorOutput) (glycin/src/api_editor.rs:229-251).
\* An Option is the empty set or a set of one value.
None == {}
Some(x) == {x}

ByteChange(offset, new_value) == [offset |-> offset, new_value |-> new_value]
MaxChanges == 2

\* The lists of byte changes and the image data a worker can reply with.
ByteChangeLists ==
    UNION {[1..n -> {ByteChange(o, v) : o \in {0, 1}, v \in {1, 6}}] : n \in 0..MaxChanges}
BinaryDatas == {<<>>, <<255>>, <<255, 216>>}

SparseEditorOutput(byte_changes, data, lossless) ==
    [byte_changes |-> byte_changes, data |-> data, info |-> [lossless |-> lossless]]

SparseEditorOutputs ==
    {SparseEditorOutput(c, d, l) :
        c \in {None} \cup {Some(x) : x \in ByteChangeLists},
        d \in {None} \cup {Some(x) : x \in BinaryDatas},
        l \in BOOLEAN}

Sparse(byte_changes) ==
    [kind |-> "Sparse", byte_changes |-> byte_changes, data |-> None, error |-> ""]
Complete(data) ==
    [kind |-> "Complete", byte_changes |-> None, data |-> data, error |-> ""]
InternalLoaderError(text) ==
    [kind |-> "RemoteError", byte_changes |-> None, data |-> None, error |-> text]

\* A conversion that takes the byte changes whenever there are some.
try_from_byte_changes_first(value) ==
    IF value.byte_changes # None THEN Sparse(value.byte_changes)
    ELSE Complete(value.data)

\* SparseEdit::try_from
try_from(value) ==
    CASE value.byte_changes # None /\ value.data # None
            -> InternalLoaderError("'byte_changes' and 'data' returned")
      [] value.byte_changes # None -> Sparse(value.byte_changes)
      [] value.data # None -> Complete(value.data)
      [] OTHER -> InternalLoaderError("neither 'bit_changes' nor 'data' returned")

\* EditableImage::apply_sparse once the worker has replied
\* (api_editor.rs:123-134).
apply_sparse_returns ==
    /\ fn_result = NotReturned
    /\ fn_result' = try_from(fn_args)
    /\ UNCHANGED fn_args
    /\ UNCHANGED exceptFn

InitSparse ==
    /\ InitWith(PoolWorkload)
    /\ FirstIdle /\ FdsIdle /\ DecoderIdle /\ ConfigIdle
    /\ fn_args \in SparseEditorOutputs
    /\ fn_result = NotReturned

NextSparse == apply_sparse_returns

SpecSparse == InitSparse /\ [][NextSparse]_vars

\* ---------------------------------------------------------------- orientation
\* Operations::orientation (glycin-common/src/operations.rs:146-165),
\* apply_operations (glycin-utils/src/editing/operations.rs:7-46) and
\* change_orientation on the bytes of a buffer
\* (glycin-utils/src/editing/orientation.rs:78-163).
\* An Orientation is a horizontal mirroring followed by a counter-clockwise
\* rotation, as the examples at operations.rs:112-147 have it.
Rotations == {0, 90, 180, 270}
Orientation(mirror, rotate) == [mirror |-> mirror, rotate |-> rotate]
Id == Orientation(FALSE, 0)

add_rotation(o, rotation) == Orientation(o.mirror, (o.rotate + rotation) % 360)
add_mirror_horizontally(o) == Orientation(~o.mirror, (360 - o.rotate) % 360)
add_mirror_vertically(o) == add_rotation(add_mirror_horizontally(o), 180)

Rotate(rotation) == [id |-> "Rotate", rotation |-> rotation]
MirrorHorizontally == [id |-> "MirrorHorizontally", rotation |-> 0]
MirrorVertically == [id |-> "MirrorVertically", rotation |-> 0]
Clip == [id |-> "Clip", rotation |-> 0]

\* An orientation that forgets the operations before the last one.
orientation_of_last(operations) ==
    IF operations = <<>> THEN Some(Id)
    ELSE LET operation == operations[Len(operations)] IN
         CASE operation.id = "Rotate" -> Some(add_rotation(Id, operation.rotation))
           [] operation.id = "MirrorHorizontally" -> Some(add_mirror_horizontally(Id))
           [] operation.id = "MirrorVertically" -> Some(add_mirror_vertically(Id))
           [] OTHER -> None

RECURSIVE orientation_from(_, _)
orientation_from(o, operations) ==
    IF operations = <<>> THEN Some(o)
    ELSE LET operation == Head(operations) IN
         CASE operation.id = "Rotate"
                -> orientation_from(add_rotation(o, operation.rotation), Tail(operations))
           [] operation.id = "MirrorHorizontally"
                -> orientation_from(add_mirror_horizontally(o), Tail(operations))
           [] operation.id = "MirrorVertically"
                -> orientation_from(add_mirror_vertically(o), Tail(operations))
           [] OTHER -> None

\* Operations::orientation
orientation(operations) == orientation_from(Id, operations)

\* A buffer is its bytes, numbered from 0.
EditingFrame(width, height, stride, pixel_size) ==
    [width |-> width, height |-> height, stride |-> stride, pixel_size |-> pixel_size]

\* The first part of change_orientation: the columns swapped in place.
mirror_in_place(buf, f) ==
    [p \in DOMAIN buf |->
        LET y == p \div f.stride
            x == (p % f.stride) \div f.pixel_size
            i == (p % f.stride) % f.pixel_size IN
        IF y < f.height /\ x < f.width
        THEN buf[(f.width - 1 - x) * f.pixel_size + y * f.stride + i]
        ELSE buf[p]]

\* Rotation::_180: the pixels swapped in place with their opposites.
rotate_180_in_place(buf, f) ==
    [p \in DOMAIN buf |->
        LET y == p \div f.stride
            x == (p % f.stride) \div f.pixel_size
            i == (p % f.stride) % f.pixel_size IN
        IF y < f.height /\ x < f.width
        THEN buf[(f.width - 1 - x) * f.pixel_size + (f.height - 1 - y) * f.stride + i]
        ELSE buf[p]]

\* Rotation::_90 and Rotation::_270: a new vector of width * height pixels
\* whose rows are the columns of the buffer.
quarter_turn(buf, f, rotation) ==
    [q \in 0..(f.width * f.height * f.pixel_size - 1) |->
        LET row == q \div (f.height * f.pixel_size)
            col == (q % (f.height * f.pixel_size)) \div f.pixel_size
            i == q % f.pixel_size
            x == IF rotation = 90 THEN f.width - 1 - row ELSE row
            y == IF rotation = 90 THEN col ELSE f.height - 1 - col IN
        buf[x * f.pixel_size + y * f.stride + i]]

\* change_orientation with the bytes.
change_orientation_buf(buf, f, transformation) ==
    LET mirrored == IF transformation.mirror THEN mirror_in_place(buf, f) ELSE buf IN
    CASE transformation.rotate = 0 -> [buf |-> mirrored, frame |-> f]
      [] transformation.rotate = 180
            -> [buf |-> rotate_180_in_place(mirrored, f), frame |-> f]
      [] OTHER
            -> [buf |-> quarter_turn(mirrored, f, transformation.rotate),
                frame |-> [f EXCEPT !.width = f.height, !.height = f.width,
                                    !.stride = as_u32(f.height * f.pixel_size)]]

\* apply_operations for operations without Clip.
RECURSIVE apply_operations(_, _, _)
apply_operations(buf, f, operations) ==
    IF operations = <<>> THEN [buf |-> buf, frame |-> f]
    ELSE LET operation == Head(operations)
             transformation ==
                CASE operation.id = "Rotate" -> Orientation(FALSE, operation.rotation)
                  [] operation.id = "MirrorHorizontally" -> Orientation(TRUE, 0)
                  [] OTHER -> Orientation(TRUE, 180)
             changed == change_orientation_buf(buf, f, transformation) IN
         apply_operations(changed.buf, changed.frame, Tail(operations))

\* The pixels of a frame, without the padding of its rows.
Pixels(buf, f) ==
    [c \in (0..(f.width - 1)) \X (0..(f.height - 1)) \X (0..(f.pixel_size - 1)) |->
        buf[c[1] * f.pixel_size + c[2] * f.stride + c[3]]]

MaxOps == 3
MaxSide == 3
OperationLists ==
    UNION {[1..n -> {Rotate(r) : r \in Rotations}
                    \cup {MirrorHorizontally, MirrorVertically}] : n \in 0..MaxOps}
EditingFrames ==
    {EditingFrame(w, h, w * ps + padding, ps) :
        w \in 1..MaxSide, h \in 1..MaxSide, ps \in {1, 3}, padding \in {0, 1}}

\* A buffer whose bytes are all different.
Numbered(f) == [p \in 0..(f.stride * f.height - 1) |-> p]

\* The operations applied one after the other and their orientation
\* applied once, to the same buffer.
apply_both_ways ==
    /\ fn_result = NotReturned
    /\ fn_result' =
        [kind |-> "applied",
         orientation |-> orientation(fn_args.operations),
         in_sequence |-> apply_operations(Numbered(fn_args.frame), fn_args.frame,
                                          fn_args.operations),
         at_once |-> LET o == orientation(fn_args.operations) IN
                     change_orientation_buf(Numbered(fn_args.frame), fn_args.frame,
                                            CHOOSE x \in o : TRUE)]
    /\ UNCHANGED fn_args
    /\ UNCHANGED exceptFn

InitOrientation ==
    /\ InitWith(PoolWorkload)
    /\ FirstIdle /\ FdsIdle /\ DecoderIdle /\ ConfigIdle
    /\ \E operations \in OperationLists, f \in EditingFrames :
        fn_args = [operations |-> operations, frame |-> f]
    /\ fn_result = NotReturned

NextOrientation == apply_both_ways

SpecOrientation == InitOrientation /\ [][NextOrientation]_vars

\* ---------------------------------------------------------------- lossless edits
\* The JPEG editor (glycin-loaders/glycin-image-rs/src/editor/jpeg.rs:19-147),
\* ByteChanges::apply (glycin-utils/src/dbus_editor_api.rs:110-116) and
\* SparseEdit::apply_to (glycin/src/api_editor.rs:200-226).
\* A JPEG is its bytes and the offset of the value of its Exif orientation
\* entry, when it has one.
FileLen == 3
Jpeg(buf, exif_pos) == [buf |-> buf, exif_pos |-> exif_pos]

\* Orientation as u8, the Exif value of an orientation, and back.
ExifValues ==
    { <<Orientation(FALSE, 0), 1>>, <<Orientation(TRUE, 0), 2>>,
      <<Orientation(FALSE, 180), 3>>, <<Orientation(TRUE, 180), 4>>,
      <<Orientation(TRUE, 90), 5>>, <<Orientation(FALSE, 270), 6>>,
      <<Orientation(TRUE, 270), 7>>, <<Orientation(FALSE, 90), 8>> }
as_u8(o) == (CHOOSE e \in ExifValues : e[1] = o)[2]
from_u8(value) == (CHOOSE e \in ExifValues : e[2] = value)[1]

\* Metadata::orientation of a JPEG
metadata_orientation(jpeg) ==
    IF jpeg.exif_pos = None THEN None
    ELSE Some(from_u8(jpeg.buf[(CHOOSE pos \in jpeg.exif_pos : TRUE) + 1]))

\* Operations::new_orientation (glycin-common/src/operations.rs:44-60)
new_orientation(o) ==
    (IF o.mirror THEN <<MirrorHorizontally>> ELSE <<>>)
        \o (IF o.rotate # 0 THEN <<Rotate(o.rotate)>> ELSE <<>>)

\* Operations::prepend (operations.rs:78-81)
prepend(operations, first) == first \o operations

\* The operations of a request after those of the Exif orientation.
with_exif_orientation(jpeg, operations) ==
    IF metadata_orientation(jpeg) = None THEN operations
    ELSE prepend(operations,
                 new_orientation(CHOOSE o \in metadata_orientation(jpeg) : TRUE))

\* rotate_sparse (jpeg.rs:119-147)
rotate_sparse(o, jpeg) ==
    IF jpeg.exif_pos = None THEN None
    ELSE Some(<<ByteChange(CHOOSE pos \in jpeg.exif_pos : TRUE, as_u8(o))>>)

\* One byte written at an offset of a file; a file grows when it is written
\* behind its end.
write_at(target, offset, new_value) ==
    [p \in 1..(IF offset + 1 > Len(target) THEN offset + 1 ELSE Len(target)) |->
        IF p = offset + 1 THEN new_value
        ELSE IF p <= Len(target) THEN target[p] ELSE 0]

\* ByteChanges::apply
RECURSIVE byte_changes_apply(_, _)
byte_changes_apply(changes, data) ==
    IF changes = <<>> THEN data
    ELSE byte_changes_apply(Tail(changes),
            [data EXCEPT ![Head(changes).offset + 1] = Head(changes).new_value])

\* The pixels decoded, changed and encoded again; the bytes of the result
\* are not modelled.
apply_non_sparse(jpeg, operations) == <<255, 216, Len(operations)>>

\* jpeg::apply_sparse
jpeg_apply_sparse(jpeg, operations) ==
    LET all == with_exif_orientation(jpeg, operations)
        o == orientation(all)
        byte_changes == IF o = None THEN None
                        ELSE rotate_sparse(CHOOSE x \in o : TRUE, jpeg) IN
    IF byte_changes # None
    THEN SparseEditorOutput(byte_changes, None, TRUE)
    ELSE SparseEditorOutput(None, Some(apply_non_sparse(jpeg, all)), FALSE)

\* jpeg::apply_complete
jpeg_apply_complete(jpeg, operations) ==
    LET all == with_exif_orientation(jpeg, operations)
        o == orientation(all)
        byte_changes == IF o = None THEN None
                        ELSE rotate_sparse(CHOOSE x \in o : TRUE, jpeg) IN
    IF byte_changes # None
    THEN byte_changes_apply(CHOOSE c \in byte_changes : TRUE, jpeg.buf)
    ELSE apply_non_sparse(jpeg, all)

\* An apply_to that writes nothing.
apply_to_nothing(edit, target) == target

RECURSIVE write_changes(_, _)
write_changes(changes, target) ==
    IF changes = <<>> THEN target
    ELSE write_changes(Tail(changes),
                       write_at(target, Head(changes).offset, Head(changes).new_value))

\* SparseEdit::apply_to
apply_to(edit, target) ==
    IF edit.kind = "Sparse"
    THEN write_changes(CHOOSE c \in edit.byte_changes : TRUE, target)
    ELSE target

Jpegs ==
    {Jpeg([p \in 1..FileLen |-> 255], None)}
        \cup {Jpeg([p \in 1..FileLen |-> IF p = pos + 1 THEN value ELSE 255], Some(pos)) :
                pos \in 0..(FileLen - 1), value \in 1..8}

EditOperationLists ==
    OperationLists \cup {<<Clip>>, <<Rotate(90), Clip>>, <<Clip, MirrorVertically>>}

\* The host asks for a sparse edit and writes it into a copy of the file,
\* and asks for the complete image.
edit_both_ways ==
    /\ fn_result = NotReturned
    /\ LET edit == try_from(jpeg_apply_sparse(fn_args.jpeg, fn_args.operations)) IN
       fn_result' = [kind |-> "edited",
                     edit |-> edit,
                     file |-> apply_to(edit, fn_args.jpeg.buf),
                     complete |-> jpeg_apply_complete(fn_args.jpeg, fn_args.operations)]
    /\ UNCHANGED fn_args
    /\ UNCHANGED exceptFn

InitLossless ==
    /\ InitWith(PoolWorkload)
    /\ FirstIdle /\ FdsIdle /\ DecoderIdle /\ ConfigIdle
    /\ \E jpeg \in Jpegs, operations \in EditOperationLists :
        fn_args = [jpeg |-> jpeg, operations |-> operations]
    /\ fn_result = NotReturned

NextLossless == edit_both_ways

SpecLossless == InitLossless /\ [][NextLossless]_vars

\* ---------------------------------------------------------------- orientation of an image
\* Image::transformation_orientation_internal (glycin/src/api_loader.rs:321-340),
\* its use in Loader::load (api_loader.rs:148-156) and apply_exif_orientation
\* (glycin/src/orientation.rs:5-12) as request_frame calls it (dbus.rs:323-327).
Orientations == {Orientation(m, r) : m \in BOOLEAN, r \in Rotations}

\* The Exif data a worker sends: none, data that cannot be read or parsed,
\* data without an orientation entry, or data with one.
ExifData(state, o) == [state |-> state, orientation |-> o]
MetadataExifs ==
    {ExifData(s, None) : s \in {"absent", "unreadable", "unparsable", "parsed"}}
        \cup {ExifData("parsed", Some(o)) : o \in Orientations}

ImageDetails(width, height, metadata_exif, ignore_exif, o) ==
    [width |-> width, height |-> height, metadata_exif |-> metadata_exif,
     transformation_ignore_exif |-> ignore_exif, transformation_orientation |-> o]

unwrap_or(option, default) == IF option = None THEN default ELSE CHOOSE x \in option : TRUE

\* Image::transformation_orientation_internal
transformation_orientation_internal(details) ==
    IF details.transformation_orientation # None
    THEN CHOOSE o \in details.transformation_orientation : TRUE
    ELSE IF ~details.transformation_ignore_exif
    THEN unwrap_or(details.metadata_exif.orientation, Id)
    ELSE Id

\* Loader::load after the worker's init: width and height of the details
\* are swapped for a quarter turn.
loader_load_details ==
    /\ fn_result = NotReturned
    /\ LET details == fn_args.details
           o == transformation_orientation_internal(details)
           swap == o.rotate \in {90, 270} IN
       fn_result' = [kind |-> "loaded",
                     transformation_orientation |-> o,
                     width |-> IF swap THEN details.height ELSE details.width,
                     height |-> IF swap THEN details.width ELSE details.height,
                     applied |-> None]
    /\ UNCHANGED fn_args
    /\ UNCHANGED exceptFn

\* request_frame: the orientation given to change_orientation, Id when the
\* buffer is returned as it is.
request_frame_orientation ==
    /\ fn_result.kind = "loaded"
    /\ fn_args.apply_transformations
    /\ fn_result' =
        [fn_result EXCEPT
            !.kind = "framed",
            !.applied = IF fn_args.details.transformation_ignore_exif
                        THEN Some(Id)
                        ELSE Some(transformation_orientation_internal(fn_args.details))]
    /\ UNCHANGED fn_args
    /\ UNCHANGED exceptFn

\* request_frame of a loader with apply_transformations(false).
request_frame_untransformed ==
    /\ fn_result.kind = "loaded"
    /\ ~fn_args.apply_transformations
    /\ fn_result' = [fn_result EXCEPT !.kind = "framed"]
    /\ UNCHANGED fn_args
    /\ UNCHANGED exceptFn

InitImageOrientation ==
    /\ InitWith(PoolWorkload)
    /\ FirstIdle /\ FdsIdle /\ DecoderIdle /\ ConfigIdle
    /\ \E exif \in MetadataExifs, ignore_exif \in BOOLEAN,
          o \in {None} \cup {Some(x) : x \in Orientations},
          apply_transformations \in BOOLEAN :
        fn_args = [details |-> ImageDetails(2, 3, exif, ignore_exif, o),
                   apply_transformations |-> apply_transformations]
    /\ fn_result = NotReturned

NextImageOrientation ==
    \/ loader_load_details
    \/ request_frame_orientation
    \/ request_frame_untransformed

SpecImageOrientation == InitImageOrientation /\ [][NextImageOrientation]_vars

\* ---------------------------------------------------------------- creator
\* Creator::add_frame_with_stride (glycin/src/api_creator.rs:76-135).
\* A texture is its length. The arguments name the build as well: with
\* overflow checks `height - 1` panics for height 0, without them it wraps.
CreatorWidths == {0, 1, 2, 3, U32Max \div 3, U32Max \div 3 + 1}
CreatorHeights == {0, 1, 2, 3}
CreatorStrides == {0, 3, 6, 7, 8, U32Max}
CreatorTextureLens == {0, 3, 5, 6, 13, 14, 16, 24}

CreatorResult(kind, new_frames, texture_len) ==
    [kind |-> kind, new_frames |-> new_frames, texture_len |-> texture_len]

add_frame_with_stride_result(a) ==
    LET pixel_size == n_bytes(a.memory_format)
        smallest_stride == smul(pixel_size, a.width, U32Max)
        height_minus_1 == IF a.height = 0 THEN U32Max ELSE a.height - 1 IN
    CASE smallest_stride = DimensionTooLargerError
            -> CreatorResult("DimensionTooLargerError", 0, a.texture_len)
      [] smallest_stride > a.stride
            -> CreatorResult("StrideTooSmall", 0, a.texture_len)
      [] a.height = 0 /\ a.overflow_checks
            -> CreatorResult("panic", 0, a.texture_len)
      [] a.texture_len < a.stride * height_minus_1 + smallest_stride
            -> CreatorResult("TextureWrongSize", 0, a.texture_len)
      [] smallest_stride # a.stride
            -> CreatorResult("Ok", 1, smallest_stride * a.height)
      [] OTHER -> CreatorResult("Ok", 1, a.texture_len)

add_frame_with_stride ==
    /\ fn_result = NotReturned
    /\ fn_result' = add_frame_with_stride_result(fn_args)
    /\ UNCHANGED fn_args
    /\ UNCHANGED exceptFn

InitCreator ==
    /\ InitWith(PoolWorkload)
    /\ FirstIdle /\ FdsIdle /\ DecoderIdle /\ ConfigIdle
    /\ \E width \in CreatorWidths, height \in CreatorHeights, stride \in CreatorStrides,
          memory_format \in MemoryFormats, texture_len \in CreatorTextureLens,
          overflow_checks \in BOOLEAN :
        fn_args = [width |-> width, height |-> height, stride |-> stride,
                   memory_format |-> memory_format, texture_len |-> texture_len,
                   overflow_checks |-> overflow_checks]
    /\ fn_result = NotReturned

NextCreator == add_frame_with_stride

SpecCreator == InitCreator /\ [][NextCreator]_vars

\* ---------------------------------------------------------------- config
\* Config::load and Config::load_file (glycin/src/config.rs:228-350).
\* config is the Config being filled; config_files is the number of files
\* read so far and the groups of the last one. A group is its kind, its
\* MIME type and its Exec key, the last two when it has them; of a loader's
\* or editor's config only exec is kept.
MaxFiles == 2
MaxGroups == 2
MimeTypes == {"image/png", "image/jpeg"}
Execs == {"/usr/libexec/a", "/usr/libexec/b"}
Kinds == {"loader", "editor", "other"}

Group(kind, mime_type, exec_key) ==
    [kind |-> kind, mime_type |-> mime_type, exec |-> exec_key]
Groups ==
    {Group(k, m, e) : k \in Kinds,
                      m \in {None} \cup {Some(x) : x \in MimeTypes},
                      e \in {None} \cup {Some(x) : x \in Execs}}
KeyFiles == UNION {[1..n -> Groups] : n \in 0..MaxGroups}

\* Config::default
EmptyConfig ==
    [image_loader |-> [m \in MimeTypes |-> None],
     image_editor |-> [m \in MimeTypes |-> None]]

\* A loop body that inserts without looking for an earlier entry.
load_group_replacing(cfg, group) ==
    IF group.mime_type = None \/ group.exec = None THEN cfg
    ELSE LET mime_type == CHOOSE m \in group.mime_type : TRUE IN
         CASE group.kind = "loader"
                -> [cfg EXCEPT !.image_loader[mime_type] = group.exec]
           [] group.kind = "editor"
                -> [cfg EXCEPT !.image_editor[mime_type] = group.exec]
           [] OTHER -> cfg

\* The body of the loop over the groups of a file (config.rs:264-345).
load_group(cfg, group) ==
    IF group.mime_type = None THEN cfg
    ELSE LET mime_type == CHOOSE m \in group.mime_type : TRUE IN
         CASE group.kind = "loader"
                -> IF cfg.image_loader[mime_type] # None \/ group.exec = None THEN cfg
                   ELSE [cfg EXCEPT !.image_loader[mime_type] = group.exec]
           [] group.kind = "editor"
                -> IF cfg.image_editor[mime_type] # None \/ group.exec = None THEN cfg
                   ELSE [cfg EXCEPT !.image_editor[mime_type] = group.exec]
           [] OTHER -> cfg

RECURSIVE load_groups(_, _)
load_groups(cfg, groups) ==
    IF groups = <<>> THEN cfg
    ELSE load_groups(load_group(cfg, Head(groups)), Tail(groups))

\* Config::load_file for the next file that Config::load finds.
load_file ==
    /\ config_files.read < MaxFiles
    /\ \E groups \in KeyFiles :
        /\ config_files' = [read |-> config_files.read + 1, state |-> "loaded",
                            groups |-> groups]
        /\ config' = load_groups(config, groups)
    /\ UNCHANGED exceptConfig

\* A file that cannot be read or is no key file: load_file returns the
\* error, which Config::load logs.
load_file_fails ==
    /\ config_files.read < MaxFiles
    /\ config_files' = [read |-> config_files.read + 1, state |-> "failed",
                        groups |-> <<>>]
    /\ UNCHANGED config
    /\ UNCHANGED exceptConfig

InitConfig ==
    /\ InitWith(PoolWorkload)
    /\ FirstIdle /\ FnIdle /\ FdsIdle /\ DecoderIdle
    /\ config_files = [read |-> 0, state |-> "none", groups |-> <<>>]
    /\ config = EmptyConfig

NextConfig ==
    \/ load_file
    \/ load_file_fails

SpecConfig == InitConfig /\ [][NextConfig]_vars

\* ---------------------------------------------------------------- frame calls
\* Image::next_frame and Image::specific_frame (glycin/src/api_loader.rs:250-278),
\* the worker's Image::frame (glycin-utils/src/dbus_loader_api.rs:96-115) and
\* the decoder of an animation (glycin-loaders/glycin-image-rs/src/main.rs:30-109,
\* 224-248). frame_calls holds the calls in the order the host has sent them.
\* The worker starts a handler for each call in that order; each handler
\* hands the decoding to a thread of the blocking pool, where the threads
\* take the lock of the decoder in an order the code does not fix.
MaxFrames == 3
MaxCalls == 4

NoNFrame == 0 - 1
FrameCall(loop_animation) ==
    [loop_animation |-> loop_animation, state |-> "sent", result |-> "none",
     n_frame |-> NoNFrame, seen |-> NoNFrame]

\* The animation thread: the frame it sends next and whether it has
\* started over; the number of frame() calls finished; the handler that
\* holds the lock; the frame returned last.
Decoder(n_frames) ==
    [n_frames |-> n_frames, next |-> 0, looped |-> FALSE, served |-> 0,
     locked_by |-> 0, last |-> NoNFrame]

\* Image::next_frame (loop_animation = true) and Image::specific_frame:
\* the host writes the call to the socket.
request_frame(loop_animation) ==
    /\ Len(frame_calls) < MaxCalls
    /\ frame_calls' = Append(frame_calls, FrameCall(loop_animation))
    /\ UNCHANGED decoder
    /\ UNCHANGED exceptDecoder

\* The object server starts the handler of the oldest call not yet started;
\* the handler's closure is queued on the blocking pool.
image_frame_starts ==
    /\ \E i \in DOMAIN frame_calls :
        /\ frame_calls[i].state = "sent"
        /\ \A j \in 1..(i - 1) : frame_calls[j].state # "sent"
        /\ frame_calls' = [frame_calls EXCEPT ![i].state = "unblock"]
    /\ UNCHANGED decoder
    /\ UNCHANGED exceptDecoder

\* loader_implementation.lock() in one of the closures.
loader_implementation_lock(i) ==
    /\ frame_calls[i].state = "unblock"
    /\ decoder.locked_by = 0
    /\ decoder' = [decoder EXCEPT !.locked_by = i]
    /\ frame_calls' = [frame_calls EXCEPT ![i].state = "locked"]
    /\ UNCHANGED exceptDecoder

\* ImgDecoder::frame of an animation, under the lock: the next frame of the
\* animation thread is received, and refused when the request does not
\* loop and the frame is the first of a repeated pass.
decoder_frame(i) ==
    /\ frame_calls[i].state = "locked"
    /\ decoder.locked_by = i
    /\ LET n_frame == decoder.next
           looped == decoder.looped
           refused == ~frame_calls[i].loop_animation /\ n_frame = 0 /\ looped IN
       /\ frame_calls' =
            [frame_calls EXCEPT
                ![i].state = "replied",
                ![i].result = IF refused THEN "NoMoreFrames" ELSE "Ok",
                ![i].n_frame = IF refused THEN NoNFrame ELSE n_frame,
                ![i].seen = decoder.served]
       /\ decoder' =
            [decoder EXCEPT
                !.next = (n_frame + 1) % decoder.n_frames,
                !.looped = looped \/ n_frame + 1 = decoder.n_frames,
                !.served = decoder.served + 1,
                !.locked_by = 0,
                !.last = IF refused THEN decoder.last ELSE n_frame]
    /\ UNCHANGED exceptDecoder

InitDecoder ==
    /\ InitWith(PoolWorkload)
    /\ FirstIdle /\ FnIdle /\ FdsIdle /\ ConfigIdle
    /\ \E n_frames \in 2..MaxFrames : decoder = Decoder(n_frames)
    /\ frame_calls = <<>>

NextDecoder ==
    \/ \E loop_animation \in BOOLEAN : request_frame(loop_animation)
    \/ image_frame_starts
    \/ \E i \in DOMAIN frame_calls : loader_implementation_lock(i)
    \/ \E i \in DOMAIN frame_calls : decoder_frame(i)

SpecDecoder == InitDecoder /\ [][NextDecoder]_vars

\* ---------------------------------------------------------------- drop
\* Drop for Image (glycin/src/api_loader.rs:234-247) and Drop for
\* EditableImage (glycin/src/api_editor.rs:109-115) with
\* RemoteProcess::done_background (glycin/src/dbus.rs:462-467), as far as the
\* done call goes. fn_args names the kind of each image of one worker;
\* fn_result holds the worker and, for each image, where its drop has got
\* to, the result of its done call, whether a message was logged and what
\* the caller of drop got.
MaxImages == 2
ImageKinds == {"Image", "EditableImage"}

HeldImage ==
    [stage |-> "held", object |-> "served", done |-> "none", logged |-> FALSE,
     caller |-> "holding"]

\* The worker exits or is killed.
worker_process_exits ==
    /\ fn_result.worker = "alive"
    /\ fn_result' = [fn_result EXCEPT !.worker = "dead"]
    /\ UNCHANGED fn_args
    /\ UNCHANGED exceptFn

\* The cancellable of an image has fired and its handler's done call has
\* removed the object from the worker's object server.
cancelled_done(i) ==
    /\ fn_result.images[i].stage = "held"
    /\ fn_result.images[i].object = "served"
    /\ fn_result.worker = "alive"
    /\ fn_result' = [fn_result EXCEPT !.images[i].object = "removed"]
    /\ UNCHANGED fn_args
    /\ UNCHANGED exceptFn

\* drop(): the done call is handed to a detached task and drop returns.
image_drop(i) ==
    /\ fn_result.images[i].stage = "held"
    /\ fn_result' = [fn_result EXCEPT !.images[i].stage = "detached",
                                      !.images[i].caller = "continued"]
    /\ UNCHANGED fn_args
    /\ UNCHANGED exceptFn

\* The result of done() for a worker and an object.
done_result(worker, object) ==
    IF worker = "alive" /\ object = "served" THEN "Ok" ELSE "Err"

\* The detached task: done() returns; Image's task logs an error with
\* tracing::warn, EditableImage's task ends with the result.
detached_done_returns(i) ==
    /\ fn_result.images[i].stage = "detached"
    /\ LET res == done_result(fn_result.worker, fn_result.images[i].object) IN
       fn_result' =
        [fn_result EXCEPT
            !.images[i].stage = "finished",
            !.images[i].done = res,
            !.images[i].object = IF res = "Ok" THEN "removed" ELSE @,
            !.images[i].logged = res = "Err" /\ fn_args[i] = "Image"]
    /\ UNCHANGED fn_args
    /\ UNCHANGED exceptFn

InitDrop ==
    /\ InitWith(PoolWorkload)
    /\ FirstIdle /\ FdsIdle /\ DecoderIdle /\ ConfigIdle
    /\ fn_args \in [1..MaxImages -> ImageKinds]
    /\ fn_result = [kind |-> "drops", worker |-> "alive",
                    images |-> [i \in 1..MaxImages |-> HeldImage]]

NextDrop ==
    \/ worker_process_exits
    \/ \E i \in 1..MaxImages : cancelled_done(i)
    \/ \E i \in 1..MaxImages : image_drop(i)
    \/ \E i \in 1..MaxImages : detached_done_returns(i)

SpecDrop == InitDrop /\ [][NextDrop]_vars

\* ---------------------------------------------------------------- loading callers
\* Callers that load images only, and may cancel at any time: the requests
\* for the png loader.
LoadWorkload == {r \in PoolWorkload : r.kind = "loader"}

InitLoad == InitWith(LoadWorkload) /\ SideIdle

\* Loader::load, Image::next_frame and the drop of the Image by every
\* caller; each caller's cancellable may fire before and during the
\* operation and goes away with the operation.
NextLoad ==
    \/ \E t \in Tasks, f \in BOOLEAN : get_process(t, f)
    \/ \E t \in Tasks, f \in BOOLEAN : spawn_error(t, f, FALSE)
    \/ \E t \in Tasks : handshake_exit(t, FALSE)
    \/ \E t \in Tasks : handshake_cancel(t, FALSE)
    \/ \E t \in Tasks : finish_spawn_error(t, FALSE)
    \/ \E t \in Tasks : finish_spawn(t)
    \/ \E t \in Tasks : init_return(t)
    \/ \E t \in Tasks : init_error(t)
    \/ \E t \in Tasks : frame(t)
    \/ \E t \in Tasks : frame_return(t)
    \/ \E t \in Tasks : drop_image(t, FALSE)
    \/ \E t \in Tasks : done_return(t)
    \/ \E t \in Tasks : cancel(t)
    \/ \E t \in Tasks : hook_done_return(t)
    \/ Environment

SpecLoad == InitLoad /\ [][NextLoad]_vars

\* dbus.rs:288-296: the worker is gone, its connection is closed and the done
\* call of the detached task returns an error.
done_fails(t) ==
    /\ pc[t] = "dropping"
    /\ child[proc[t]] \in Dead
    /\ done_return(t)

\* The executor runs a detached task whose call has come back.  A worker
\* that is alive answers a call or does not: the host sets no timeout on
\* its calls, and nothing makes a worker answer.
FairLoad == SpecLoad /\ \A t \in Tasks : WF_vars(done_fails(t))

\* The same with workers that answer every done call.
FairLoadAnswered == SpecLoad /\ \A t \in Tasks : WF_vars(done_return(t))

\* ---------------------------------------------------------------- safe math
\* SafeMath::srem (glycin-utils/src/safe_math.rs:32-78) for its three
\* implementing types, and remove_stride_if_needed (glycin/src/dbus.rs:
\* 696-714), which calls it for the u32 stride.  fn_args is one call with
\* its arguments, fn_result its result.
SafeMathTypes == {"usize", "u32", "u64"}

\* The largest value of a type; usize is as wide as u64.
TypeMax(ty) == IF ty = "u32" THEN U32Max ELSE USizeMax

MaxOperand == 12

\* Small operands and the ones next to the largest value of each type.
Operands(ty) ==
    {n \in 0..MaxOperand \cup {U32Max - 1, U32Max, USizeMax - 1, USizeMax} :
        n <= TypeMax(ty)}

\* checked_rem
checked_rem(a, b) == IF b = 0 THEN DimensionTooLargerError ELSE a % b

\* safe_math.rs:38-78: srem of usize is checked_rem, srem of u32 and of u64
\* is the srem above
srem_of(ty, a, b) ==
    IF ty = "usize" THEN checked_rem(a, b) ELSE srem(a, b, TypeMax(ty))

\* The frames remove_stride_if_needed is called with (dbus.rs:343): they
\* have passed validate_frame, and the buffer holds stride * height bytes.
StridedFrames ==
    {f \in [width : 1..2, height : 1..2, stride : 1..MaxOperand \cup {U32Max},
            memory_format : MemoryFormats] :
        /\ f.stride >= f.width * n_bytes(f.memory_format)
        /\ f.stride * f.height <= MAX_TEXTURE_SIZE}

srem_returns ==
    /\ fn_args.call = "srem"
    /\ fn_result = NotReturned
    /\ fn_result' = [kind |-> "srem",
                     value |-> srem_of(fn_args.type, fn_args.a, fn_args.b)]
    /\ UNCHANGED fn_args
    /\ UNCHANGED exceptFn

remove_stride_returns ==
    /\ fn_args.call = "remove_stride_if_needed"
    /\ fn_result = NotReturned
    /\ fn_result' = [kind |-> "remove_stride_if_needed",
                     value |-> remove_stride_if_needed(fn_args.img_buf, fn_args.frame)]
    /\ UNCHANGED fn_args
    /\ UNCHANGED exceptFn

InitSafeMath ==
    /\ InitWith(PoolWorkload)
    /\ FirstIdle /\ FdsIdle /\ DecoderIdle /\ ConfigIdle
    /\ \/ \E ty \in SafeMathTypes : \E a \in Operands(ty), b \in Operands(ty) :
            fn_args = [call |-> "srem", type |-> ty, a |-> a, b |-> b]
       \/ \E f \in StridedFrames :
            fn_args = [call |-> "remove_stride_if_needed", frame |-> f,
                       img_buf |-> [kind |-> "MMap", len |-> f.stride * f.height]]
    /\ fn_result = NotReturned

NextSafeMath ==
    \/ srem_returns
    \/ remove_stride_returns

SpecSafeMath == InitSafeMath /\ [][NextSafeMath]_vars

\* ---------------------------------------------------------------- memory formats
\* change_memory_format (glycin-utils/src/editing/change_memory_format.rs:
\* 7-139) for one pixel: the branch taken for formats of one channel type
\* and MemoryFormat::transform (glycin-common/src/memory_format.rs:262-362),
\* which the last branch applies to every pixel.  fn_args is a source
\* format, a target format and the bytes of a source pixel; fn_result holds
\* the target pixel of each of the two.
U8Formats ==
    {"B8g8r8a8Premultiplied", "A8r8g8b8Premultiplied", "R8g8b8a8Premultiplied",
     "B8g8r8a8", "A8r8g8b8", "R8g8b8a8", "A8b8g8r8", "R8g8b8", "B8g8r8",
     "G8a8Premultiplied", "G8a8", "G8"}
U16Formats ==
    {"R16g16b16", "R16g16b16a16Premultiplied", "R16g16b16a16",
     "G16a16Premultiplied", "G16a16", "G16"}
F16Formats == {"R16g16b16Float", "R16g16b16a16Float"}
F32Formats ==
    {"R32g32b32Float", "R32g32b32a32FloatPremultiplied", "R32g32b32a32Float"}

MemoryFormat == U8Formats \cup U16Formats \cup F16Formats \cup F32Formats

\* MemoryFormat::channel_type and ChannelType::size
channel_type(format) ==
    CASE format \in U8Formats -> "U8"
      [] format \in U16Formats -> "U16"
      [] format \in F16Formats -> "F16"
      [] OTHER -> "F32"

channel_size(ct) ==
    CASE ct = "U8" -> 1 [] ct = "U16" -> 2 [] ct = "F16" -> 2 [] OTHER -> 4

\* MemoryFormat::is_premultiplied
is_premultiplied(format) ==
    format \in {"B8g8r8a8Premultiplied", "A8r8g8b8Premultiplied",
                "R8g8b8a8Premultiplied", "R16g16b16a16Premultiplied",
                "R32g32b32a32FloatPremultiplied", "G8a8Premultiplied",
                "G16a16Premultiplied"}

\* Source::C0 .. Source::C3 are 0 .. 3
Opaque == 4

\* Target::R, G, B, A are 0 .. 3
RgbAvg == 4

\* MemoryFormat::source_definition: where R, G, B and A come from
source_definition(format) ==
    CASE format \in {"B8g8r8a8Premultiplied", "B8g8r8a8"} -> <<2, 1, 0, 3>>
      [] format \in {"A8r8g8b8Premultiplied", "A8r8g8b8"} -> <<1, 2, 3, 0>>
      [] format \in {"R8g8b8a8Premultiplied", "R8g8b8a8", "R16g16b16a16Premultiplied",
                     "R16g16b16a16", "R16g16b16a16Float",
                     "R32g32b32a32FloatPremultiplied", "R32g32b32a32Float"}
            -> <<0, 1, 2, 3>>
      [] format = "A8b8g8r8" -> <<1, 2, 3, 0>>
      [] format \in {"R8g8b8", "R16g16b16", "R16g16b16Float", "R32g32b32Float"}
            -> <<0, 1, 2, Opaque>>
      [] format = "B8g8r8" -> <<2, 1, 0, Opaque>>
      [] format \in {"G8a8Premultiplied", "G8a8", "G16a16Premultiplied", "G16a16"}
            -> <<0, 0, 0, 1>>
      [] OTHER -> <<0, 0, 0, Opaque>>

\* MemoryFormat::target_definition: what each channel of the format holds
target_definition(format) ==
    CASE format \in {"B8g8r8a8Premultiplied", "B8g8r8a8"} -> <<2, 1, 0, 3>>
      [] format \in {"A8r8g8b8Premultiplied", "A8r8g8b8"} -> <<3, 0, 1, 2>>
      [] format \in {"R8g8b8a8Premultiplied", "R8g8b8a8", "R16g16b16a16Premultiplied",
                     "R16g16b16a16", "R16g16b16a16Float",
                     "R32g32b32a32FloatPremultiplied", "R32g32b32a32Float"}
            -> <<0, 1, 2, 3>>
      [] format = "A8b8g8r8" -> <<3, 2, 1, 0>>
      [] format \in {"R8g8b8", "R16g16b16", "R16g16b16Float", "R32g32b32Float"}
            -> <<0, 1, 2>>
      [] format = "B8g8r8" -> <<2, 1, 0>>
      [] format \in {"G8a8Premultiplied", "G8a8", "G16a16Premultiplied", "G16a16"}
            -> <<RgbAvg, 3>>
      [] OTHER -> <<RgbAvg>>

Contains(seq, x) == \E i \in 1..Len(seq) : seq[i] = x

\* MemoryFormatInfo::n_channels and n_bytes
n_channels(format) == Len(target_definition(format))
pixel_n_bytes(format) == n_channels(format) * channel_size(channel_type(format))

\* change_memory_format.rs:41-45, the test of the first branch
same_channel_type(src_format, target_format) ==
    /\ channel_type(src_format) = channel_type(target_format)
    /\ is_premultiplied(src_format) = is_premultiplied(target_format)
    /\ \/ ~Contains(source_definition(src_format), Opaque)
       \/ ~Contains(target_definition(target_format), 3)
    /\ ~Contains(target_definition(target_format), RgbAvg)

\* change_memory_format.rs:47-50
source_target_index_map(src_format, target_format) ==
    [n \in 1..n_channels(target_format) |->
        source_definition(src_format)[target_definition(target_format)[n] + 1]]

\* change_memory_format.rs:64-69, the two loops over the bytes of one pixel:
\* byte k of the target is written for every channel_byte and i with
\* i + channel_byte = k, the last time with the largest channel_byte, from
\* byte index_map[i] + channel_byte of the source; a byte never written
\* keeps the 0 of the new vector.
copy_channels(src_format, target_format, src) ==
    LET size == channel_size(channel_type(target_format))
        n == n_channels(target_format)
        index_map == source_target_index_map(src_format, target_format)
        writes(k) == {cb \in 0..(size - 1) : k - cb \in 0..(n - 1)}
        last(k) == CHOOSE cb \in writes(k) : \A other \in writes(k) : other <= cb IN
    [k \in 1..pixel_n_bytes(target_format) |->
        IF writes(k - 1) = {} THEN 0
        ELSE src[index_map[(k - 1) - last(k - 1) + 1] + last(k - 1) + 1]]

\* The same loops with every channel at its own offset.
copy_whole_channels(src_format, target_format, src) ==
    LET size == channel_size(channel_type(target_format))
        index_map == source_target_index_map(src_format, target_format) IN
    [k \in 1..pixel_n_bytes(target_format) |->
        src[index_map[((k - 1) \div size) + 1] * size + ((k - 1) % size) + 1]]

RECURSIVE gcd(_, _)
gcd(a, b) == IF b = 0 THEN a ELSE gcd(b, a % b)

\* Fractions in lowest terms, for the normed f32 values of integer channels.
Fraction(num, den) ==
    LET g == gcd(num, den) IN
    IF g = 0 THEN [num |-> 0, den |-> 1] ELSE [num |-> num \div g, den |-> den \div g]

fmul(x, y) ==
    LET a == Fraction(x.num, y.den)
        b == Fraction(y.num, x.den) IN
    Fraction(a.num * b.num, a.den * b.den)

fdiv(x, y) == fmul(x, [num |-> y.den, den |-> y.num])

\* f32::round
fround(x) == (2 * x.num + x.den) \div (2 * x.den)

\* T::MAX of the integer channel types
channel_max(ct) == IF ct = "U8" THEN 255 ELSE 65535

\* The value of the channel at index c of a pixel: the integer of its
\* native-endian bytes for u8 and u16, the float with these bytes otherwise.
channel_bytes(ct, src, c) ==
    [b \in 1..channel_size(ct) |-> src[c * channel_size(ct) + b]]

\* ChannelValue::to_f32_normed: value / MAX for u8 and u16, the same number
\* as f32 for f16 and f32
to_f32_normed(ct, bytes) ==
    CASE ct = "U8" -> [float |-> "none", q |-> Fraction(bytes[1], channel_max(ct))]
      [] ct = "U16" -> [float |-> "none",
                        q |-> Fraction(bytes[1] + 256 * bytes[2], channel_max(ct))]
      [] OTHER -> [float |-> bytes, q |-> Fraction(0, 1)]

\* ChannelValue::from_f32_normed and as_bytes: (value * MAX).round() for u8
\* and u16, the same number as f16 or f32 otherwise
from_f32_normed(ct, value) ==
    LET n == fround(fmul(value.q, Fraction(channel_max(ct), 1))) IN
    CASE ct = "U8" -> <<n>>
      [] ct = "U16" -> <<n % 256, n \div 256>>
      [] OTHER -> value.float

One == [float |-> "none", q |-> Fraction(1, 1)]

\* MemoryFormat::to_f32_internal: R, G, B, A
to_f32(src_format, src) ==
    LET ct == channel_type(src_format)
        def == source_definition(src_format)
        raw == [n \in 1..4 |->
                  IF def[n] = Opaque THEN One
                  ELSE to_f32_normed(ct, channel_bytes(ct, src, def[n]))]
        divide == is_premultiplied(src_format) /\ raw[4].q.num > 0 IN
    [n \in 1..4 |->
        IF divide /\ n < 4
        THEN [raw[n] EXCEPT !.q = fdiv(raw[n].q, raw[4].q)]
        ELSE raw[n]]

\* MemoryFormat::from_f32_internal for the targets without RgbAvg
from_f32(channels_f32, target_format) ==
    LET ct == channel_type(target_format)
        size == channel_size(ct)
        def == target_definition(target_format)
        new_channel(n) ==
            IF is_premultiplied(target_format) /\ def[n] # 3
            THEN [channels_f32[def[n] + 1] EXCEPT
                    !.q = fmul(channels_f32[def[n] + 1].q, channels_f32[4].q)]
            ELSE channels_f32[def[n] + 1] IN
    [k \in 1..pixel_n_bytes(target_format) |->
        from_f32_normed(ct, new_channel(((k - 1) \div size) + 1))[((k - 1) % size) + 1]]

\* MemoryFormat::transform
transform(src_format, src, target_format) ==
    from_f32(to_f32(src_format, src), target_format)

\* The pairs of formats that take the first branch.
SameChannelTypePairs ==
    {p \in MemoryFormat \X MemoryFormat :
        p[1] # p[2] /\ same_channel_type(p[1], p[2])}

\* Pixels whose bytes all differ, and the same with one channel of zeros.
PixelSeeds == {1, 100}
ZeroChannels == 0..4
PixelOf(format, seed, zero_channel) ==
    [k \in 1..pixel_n_bytes(format) |->
        IF (k - 1) \div channel_size(channel_type(format)) = zero_channel
        THEN 0 ELSE seed + k]

\* change_memory_format for one pixel of a pair of the first branch, next
\* to what the last branch would have written.
change_pixel_format ==
    /\ fn_result = NotReturned
    /\ fn_result' =
        [kind |-> "changed",
         new_data |-> copy_channels(fn_args.src_format, fn_args.target_format,
                                    fn_args.src_data),
         transformed |-> transform(fn_args.src_format, fn_args.src_data,
                                   fn_args.target_format)]
    /\ UNCHANGED fn_args
    /\ UNCHANGED exceptFn

InitMemoryFormat ==
    /\ InitWith(PoolWorkload)
    /\ FirstIdle /\ FdsIdle /\ DecoderIdle /\ ConfigIdle
    /\ \E p \in SameChannelTypePairs, seed \in PixelSeeds,
          zero_channel \in ZeroChannels :
        fn_args = [src_format |-> p[1], target_format |-> p[2],
                   src_data |-> PixelOf(p[1], seed, zero_channel)]
    /\ fn_result = NotReturned

NextMemoryFormat == change_pixel_format

SpecMemoryFormat == InitMemoryFormat /\ [][NextMemoryFormat]_vars

\* RemoteProcess::new comes to an end: one arm of its select is taken.
spawn_ends(t) ==
    \/ finish_spawn(t)
    \/ \E h \in BOOLEAN : handshake_exit(t, h)
    \/ \E h \in BOOLEAN : handshake_cancel(t, h)
    \/ \E h \in BOOLEAN : finish_spawn_error(t, h)

\* One caller that may cancel and may keep its cancellable, with an executor
\* that runs what is ready: time passes, a timer whose delay has passed
\* fires, the thread that waits for a child sees its exit, a detached task
\* goes on when its call has come back, a spawn comes to an end and the
\* workers answer the done calls.  What the caller
\* and the workers do of their own accord is left to them.
FairCancel ==
    /\ SpecCancel
    /\ \A t \in OneCaller : WF_vars(spawn_ends(t))
    /\ WF_vars(tick)
    /\ \A p \in Procs : WF_vars(timer_fires(p)) /\ WF_vars(wait_thread(p))
    /\ \A t \in OneCaller :
          /\ WF_vars(done_return(t))
          /\ WF_vars(hook_done_return(t))
          /\ WF_vars(bg_done_return(t))
          /\ WF_vars(detached_clean(t))

\* ---------------------------------------------------------------- properties

\* C1: at every moment every worker process is used by at most
\* max_parallel_operations operations: calls in flight on it and live images
\* and editable images created on it.
C1_UsersWithinMax ==
    \A p \in Procs :
        Cardinality({t \in Tasks :
            /\ proc[t] = p
            /\ pc[t] \in {"init", "loaded", "frame", "edit", "editable", "apply",
                          "create"}}) <= max_parallel_operations

\* C2: whenever clean_loaders runs, a pooled process leaves the pool if and
\* only if it has zero users and its idle time is strictly greater than the
\* retention time.
C2_CleanupRemovesIff ==
    [][LET cleaning ==
             \/ \E t \in Tasks : clean_pending[t] /\ ~clean_pending'[t]
             \/ /\ taskVars' = taskVars
                /\ \E p \in Procs : timeout[p] # NoTimer /\ timeout'[p] = NoTimer
       IN cleaning =>
            \A p \in Procs :
                InPool(p) =>
                    (~(InPool(p))' <=>
                        (n_users(p) = 0 /\ last_use[p] > loader_retention_time))]_vars

C4_DisconnectedNeverReturned ==
    [][\A t \in Tasks, p \in Procs :
          (/\ process_disconnected[p]
           /\ pc[t] = "idle"
           /\ pc'[t] \in {"init", "edit", "create"})
              => proc'[t] # p]_vars

C4_Witness ==
    /\ max_parallel_operations = NTasks
    /\ \E h \in DOMAIN loaders :
         /\ Len(loaders[h]) = 2
         /\ process_disconnected[loaders[h][1]]
         /\ \E t \in Tasks : pc[t] = "init" /\ proc[t] = loaders[h][2]

\* C5: get_loader / get_editor spawns only when the bucket of the request's
\* key has no worker that is connected and below max_parallel_operations;
\* otherwise it returns the first such worker of the bucket, and the tracker
\* returned with it counts as one more user of that worker.
C5_FirstUsableOrSpawn ==
    [][\A t \in Tasks :
          (pc[t] = "idle" /\ pc'[t] # "idle") =>
             LET r == req'[t]
                 bucket == Map(r.kind)[hash_value(r)]
                 free(p) == /\ ~process_disconnected[p]
                            /\ n_users(p) < max_parallel_operations
             IN IF pc'[t] \in {"init", "edit", "create"}
                THEN \E i \in 1..Len(bucket) :
                        /\ bucket[i] = proc'[t]
                        /\ free(bucket[i])
                        /\ \A j \in 1..(i - 1) : ~free(bucket[j])
                        /\ usage_tracker'[t] = bucket[i]
                        /\ Cardinality({u \in Tasks : usage_tracker'[u] = proc'[t]})
                             = n_users(bucket[i]) + 1
                ELSE pc'[t] = "handshake" =>
                        \A i \in 1..Len(bucket) : ~free(bucket[i])]_vars

C5_Witness ==
    /\ max_parallel_operations = 1
    /\ \E h \in DOMAIN loaders, t \in Tasks :
         /\ Len(loaders[h]) = 2
         /\ pc[t] = "init" /\ proc[t] = loaders[h][1]
         /\ timeout[loaders[h][1]] # NoTimer
         /\ ~process_disconnected[loaders[h][2]]
         /\ n_users(loaders[h][2]) = 0

\* C6: a caller only ever holds a worker that was spawned for a request
\* equal to its own in map (loader or editor), exec, fontconfig,
\* expose_base_dir, base directory and sandbox mechanism.
C6_SameKeyOnly ==
    \A t \in Tasks : proc[t] # NoProc => spawned_with[proc[t]] = req[t]

C6_Witness ==
    /\ pc[1] = "init" /\ proc[1] = 1
    /\ InPool(2)
    /\ spawned_with[2].kind = spawned_with[1].kind
    /\ spawned_with[2].exec = spawned_with[1].exec
    /\ spawned_with[2].sandbox_mechanism = spawned_with[1].sandbox_mechanism
    /\ spawned_with[2].base_dir # spawned_with[1].base_dir

\* C7: whoever holds the lock of a pool map has no worker call (init, frame,
\* apply, create, done) in flight.
C7_NoLockAcrossCall ==
    \A k \in DOMAIN lock : lock[k] # NoTask => pc[lock[k]] \notin InCall

C7_Witness ==
    \E t \in Tasks, u \in Tasks :
        /\ lock["loader"] = t /\ pc[t] = "handshake"
        /\ pc[u] \in InCall

\* C8: when a retention timer fires, every editor worker with zero users
\* that has been idle for longer than the retention time leaves the editor
\* map.
C8_EditorEvictedByTimer ==
    [][(/\ taskVars' = taskVars
        /\ \E q \in Procs : timeout[q] # NoTimer /\ timeout'[q] = NoTimer)
          => \A p \in Procs :
                (/\ InBucket(editors, p)
                 /\ n_users(p) = 0
                 /\ last_use[p] > loader_retention_time)
                    => ~(InBucket(editors, p))']_vars

\* C9: a worker that has left the pool, with no Image or EditableImage on it
\* any more and no done() call to it in flight, has its child terminated.
C9_ChildTerminated ==
    \A p \in Procs :
        (/\ remote[p] # "none"
         /\ ~InPool(p)
         /\ \A t \in Tasks : proc[t] # p /\ hook_done[t] # p /\ bg_done[t] # p)
            => (proc_cancelled[p] /\ child[p] # "running")

\* C10: when the operation's cancellable has fired during the spawn and
\* handshake of a new worker, a child still running is killed as soon as
\* get_process goes on, and the operation ends with Canceled.
C10_CancelDuringSpawn ==
    [][\A t \in Tasks :
          /\ (pc[t] = "handshake" /\ cancelled[t] /\ pc'[t] # "handshake") =>
                /\ child[proc[t]] = "running" => child'[proc[t]] = "killed"
                /\ child'[proc[t]] \in Dead
                /\ pc'[t] = "idle" => result'[t] = "Canceled"
          /\ (/\ pc[t] \in {"init", "edit", "create"}
              /\ cancelled[t]
              /\ proc_cancelled[proc[t]]
              /\ pc'[t] # pc[t])
                => (pc'[t] = "idle" /\ result'[t] = "Canceled")]_vars

C10_Witness ==
    \E t \in Tasks, p \in Procs :
        /\ pc[t] = "idle" /\ result[t] = "Canceled"
        /\ remote[p] = "none" /\ child[p] = "killed"

\* C11 (as stated): a frame or apply call during which the cancellable fired
\* returns the Canceled error.
C11_CancelledCallCanceled ==
    (call = "none" /\ cancel_fired = "in_flight" /\ outcome # "none")
        => outcome = "Canceled"

\* C11 (amended): when the cancellable fires during a frame or apply call the
\* cancel handler sends done; the worker's done handler sets the dropped gate;
\* a handler that finds the gate set while the decoder is still running
\* answers Aborted; the host turns every error of such a call into Canceled
\* and returns a result the worker produced first as it is; and the call
\* ends even if the decoder never finishes.
C11_GateEndsCall ==
    /\ [][/\ (cancel_fired = "no" /\ cancel_fired' # "no") => done_calls' = done_calls + 1
          /\ (registered /\ ~registered') => dropped_gate'
          /\ (call = "running" /\ call' = "replied" /\ frame_request = "running")
                => (dropped_gate /\ reply' = "Aborted")
          /\ (call = "replied" /\ call' = "none" /\ is_cancelled)
                => outcome' = (IF reply = "Ok" THEN "Ok" ELSE "Canceled")]_vars
    /\ (cancel_fired = "in_flight") ~> (call = "none")

\* a call ended with Canceled while the decoder is still at work
C11_Witness ==
    /\ call = "none"
    /\ cancel_fired = "in_flight"
    /\ outcome = "Canceled"
    /\ frame_request = "running"

\* C12: an operation that fails while its cancellable is cancelled surfaces
\* the Canceled variant carrying the text of the original error, at every
\* call of every loader, editor and creator operation.
C12_CanceledSurfaced ==
    (failure.op # "none" /\ failure.is_cancelled)
        => surfaced.error = Canceled(to_string(failure.err))

\* a worker's error reply surfaced as Canceled with the reply's text
C12_Witness ==
    /\ failure.is_cancelled
    /\ failure.err = Error("RemoteError", "LoadingError")
    /\ surfaced.error = Error("Canceled", "RemoteError: LoadingError")

C14_WorkerFailureContext ==
    (failure.op # "none" /\ failure.err.variant \in {"PrematureExit", "RemoteError"})
        => /\ surfaced.stderr = failure.stderr_content
           /\ surfaced.stdout = failure.stdout_content

\* What C15 asks of the frame the worker declared and the texture it sent.
DeclaredFrameOk ==
    LET f == request.declared IN
    /\ request.texture_size >= f.stride * f.height
    /\ f.stride >= f.width * n_bytes(f.memory_format)
    /\ f.width >= 1 /\ f.height >= 1
    /\ f.stride * f.height <= MAX_TEXTURE_SIZE
    /\ f.width <= I32Max /\ f.height <= I32Max

\* C15: no frame is returned unless the frame the worker declared has a
\* texture of at least stride x height bytes, a stride of at least
\* width x bytes per pixel, a width and a height of at least 1, at most
\* MAX_TEXTURE_SIZE bytes and a width and a height that fit in i32; a
\* request whose mapped frame breaks one of these fails with
\* TextureWrongSize, StrideTooSmall, WidgthOrHeightZero, TextureTooLarge or
\* the dimension error.
C15_OnlyValidFramesReturned ==
    /\ request.stage = "returned" => DeclaredFrameOk
    /\ (img_buf.kind # "none" /\ request.stage # "mapped" /\ ~DeclaredFrameOk)
        => /\ request.stage = "failed"
           /\ request.result \in {"TextureWrongSize", "StrideTooSmall",
                                  "WidgthOrHeightZero", "TextureTooLarge",
                                  "ConversionTooLargerError"}

C15_Witness ==
    /\ request.stage = "failed"
    /\ request.result = "TextureTooLarge"
    /\ request.texture_size >= request.declared.stride * request.declared.height

\* C16: every returned frame has a buffer of exactly stride x height bytes
\* and a stride of at least width x bytes per pixel of its format, whatever
\* post-processing was applied.
C16_ReturnedFrameExact ==
    request.stage = "returned"
        => /\ request.buffer = frame_.stride * frame_.height
           /\ frame_.stride >= frame_.width * n_bytes(frame_.memory_format)

\* C17: in a frame request the texture and the ICC profile are sealed
\* before the frame is validated and before the host reads or transforms
\* their bytes.
C17_SealedBeforeValidation ==
    request.stage \in {"validated", "oriented", "coloured", "converted"}
        => /\ texture.sealed
           /\ texture.color_icc_profile # "unsealed"

\* The frame of the cap scenario: stride 4 and a height of 2^31.
CapFrame == request.declared.stride = 4 /\ request.declared.height = I32Max + 1

\* C18: a frame declaring stride 4 and height 2^31 is rejected with
\* TextureTooLarge, and it is rejected before the texture is mapped.
C18_CapBeforeMapping ==
    (CapFrame /\ request.stage \notin {"none", "reply"})
        => /\ request.result = "TextureTooLarge"
           /\ img_buf.kind = "none"

\* The same frame rejected for a texture shorter than it declares.
CapFrameWrongSize ==
    CapFrame /\ request.stage = "failed" /\ request.result = "TextureWrongSize"

C20_WorkerHasMemoryLimit ==
    command.stage = "running"
        => /\ command.memory_limit # Unset
           /\ command.rlimit_as = command.memory_limit

\* The worker started without a sandbox, by a host that has no limit itself.
UnsandboxedUnlimited ==
    /\ command.stage = "running"
    /\ command.mechanism = "NotSandboxed"
    /\ command.rlimit_as = RLIM_INFINITY

C22_ExactlyOnePayload ==
    fn_result.kind # "none"
        => LET both == fn_args.byte_changes # None /\ fn_args.data # None
               neither == fn_args.byte_changes = None /\ fn_args.data = None IN
           /\ (both \/ neither) <=> fn_result.kind = "RemoteError"
           /\ fn_result.kind = "Sparse"
                => /\ fn_result.byte_changes = fn_args.byte_changes
                   /\ fn_args.data = None /\ fn_result.data = None
           /\ fn_result.kind = "Complete"
                => /\ fn_result.data = fn_args.data
                   /\ fn_args.byte_changes = None /\ fn_result.byte_changes = None

C22_Witness ==
    /\ fn_result.kind = "RemoteError"
    /\ fn_args.byte_changes = Some(<<ByteChange(1, 6)>>)
    /\ fn_args.data = Some(<<255, 216>>)

\* C28: for operations without Clip, their orientation applied once gives
\* the same pixels, width, height and stride as the operations applied one
\* after the other.
C28_OrientationEquivalent ==
    fn_result.kind = "applied"
        => /\ fn_result.at_once.frame = fn_result.in_sequence.frame
           /\ Pixels(fn_result.at_once.buf, fn_result.at_once.frame)
                = Pixels(fn_result.in_sequence.buf, fn_result.in_sequence.frame)

\* C28 amended: the pixels, the width and the height are the same; the stride
\* is the same when the rows of the buffer have no padding.
C28_PixelsEquivalent ==
    fn_result.kind = "applied"
        => /\ fn_result.at_once.frame.width = fn_result.in_sequence.frame.width
           /\ fn_result.at_once.frame.height = fn_result.in_sequence.frame.height
           /\ Pixels(fn_result.at_once.buf, fn_result.at_once.frame)
                = Pixels(fn_result.in_sequence.buf, fn_result.in_sequence.frame)
           /\ fn_args.frame.stride = fn_args.frame.width * fn_args.frame.pixel_size
                => fn_result.at_once.frame.stride = fn_result.in_sequence.frame.stride

C28_Witness ==
    /\ fn_result.kind = "applied"
    /\ fn_args.operations = <<Rotate(180), Rotate(270), MirrorHorizontally>>
    /\ fn_result.orientation = Some(Orientation(TRUE, 270))
    /\ fn_args.frame = EditingFrame(2, 3, 7, 3)
    /\ fn_result.at_once.frame.width = 3
    /\ fn_result.in_sequence.frame.stride = 9

\* C23: the byte changes of a sparse edit written into a copy of the file
\* with apply_to give the bytes that apply_complete returns for the same
\* operations on the same file.
C23_SparseEqualsComplete ==
    (fn_result.kind = "edited" /\ fn_result.edit.kind = "Sparse")
        => fn_result.file = fn_result.complete

C23_Witness ==
    /\ fn_result.kind = "edited"
    /\ fn_result.edit.kind = "Sparse"
    /\ fn_args.operations = <<Rotate(90), MirrorHorizontally>>
    /\ fn_result.file # fn_args.jpeg.buf
    /\ fn_result.file = fn_result.complete

\* The explicit orientation of the details if there is one, otherwise the
\* orientation of the Exif data, otherwise identity.
OverrideElseExifElseId(details) ==
    IF details.transformation_orientation # None
    THEN CHOOSE o \in details.transformation_orientation : TRUE
    ELSE unwrap_or(details.metadata_exif.orientation, Id)

\* C27: the orientation used for an image, both the one the image reports
\* and the one its frames are turned by, is the explicit override of the
\* details if present, otherwise the Exif orientation, otherwise identity.
C27_OrientationSource ==
    /\ fn_result.kind \in {"loaded", "framed"}
        => fn_result.transformation_orientation = OverrideElseExifElseId(fn_args.details)
    /\ (fn_result.kind = "framed" /\ fn_args.apply_transformations)
        => fn_result.applied = Some(OverrideElseExifElseId(fn_args.details))

\* A frame left as it is although the details carry an explicit quarter
\* turn, which the image reports and its width and height follow.
OverrideNotApplied ==
    /\ fn_result.kind = "framed"
    /\ fn_args.details.transformation_orientation = Some(Orientation(FALSE, 90))
    /\ fn_result.transformation_orientation = Orientation(FALSE, 90)
    /\ fn_result.width = fn_args.details.height
    /\ fn_result.applied = Some(Id)

\* A stride of at least a row and a texture that holds every row.
StrideAndTextureFit(a) ==
    /\ a.stride >= a.width * n_bytes(a.memory_format)
    /\ a.texture_len >= a.stride * (a.height - 1) + a.width * n_bytes(a.memory_format)

\* C30: add_frame_with_stride accepts a texture exactly when the stride is
\* at least width x bytes per pixel and the texture holds at least
\* stride x (height - 1) + width x bytes per pixel bytes; otherwise it
\* returns StrideTooSmall or TextureWrongSize and adds no frame.
C30_StrideValidation ==
    fn_result.kind # "none"
        => /\ fn_result.kind = "Ok" <=> StrideAndTextureFit(fn_args)
           /\ fn_result.kind = "Ok" => fn_result.new_frames = 1
           /\ fn_result.kind # "Ok"
                => /\ fn_result.kind \in {"StrideTooSmall", "TextureWrongSize"}
                   /\ fn_result.new_frames = 0

\* The same for frames of at least one row whose smallest stride is a u32.
C30_StrideValidationOfRows ==
    (/\ fn_result.kind # "none"
     /\ fn_args.height >= 1
     /\ fn_args.width * n_bytes(fn_args.memory_format) <= U32Max)
        => /\ fn_result.kind = "Ok" <=> StrideAndTextureFit(fn_args)
           /\ fn_result.kind = "Ok" => fn_result.new_frames = 1
           /\ fn_result.kind # "Ok"
                => /\ fn_result.kind \in {"StrideTooSmall", "TextureWrongSize"}
                   /\ fn_result.new_frames = 0

\* A frame without rows whose stride and texture fit, not accepted.
HeightZeroNotAccepted ==
    /\ fn_args.height = 0
    /\ StrideAndTextureFit(fn_args)
    /\ fn_args.width = 1
    /\ fn_result.kind \in {"panic", "TextureWrongSize"}

\* The entries of a config, by kind.
Entries(cfg, kind) == IF kind = "loader" THEN cfg.image_loader ELSE cfg.image_editor

\* C29: an entry of the config is never replaced or changed by a later
\* file, and an entry that appears comes from a group of the file just
\* read whose kind is loader or editor, for that kind and MIME type.
C29_FirstEntryWins ==
    [][\A kind \in {"loader", "editor"}, m \in MimeTypes :
        /\ Entries(config, kind)[m] # None
            => Entries(config', kind)[m] = Entries(config, kind)[m]
        /\ Entries(config', kind)[m] # Entries(config, kind)[m]
            => \E i \in DOMAIN config_files'.groups :
                config_files'.groups[i] = Group(kind, Some(m), Entries(config', kind)[m])]_vars

\* A later file with a loader group for a MIME type that has an entry.
C29_Witness ==
    /\ config_files.read = 2
    /\ config.image_loader["image/png"] = Some("/usr/libexec/a")
    /\ config.image_loader["image/jpeg"] = None
    /\ config_files.groups = <<Group("loader", Some("image/png"), Some("/usr/libexec/b")),
                               Group("other", Some("image/jpeg"), Some("/usr/libexec/b"))>>

\* C24: the frame calls of one image path run one at a time and in the
\* order of their issue: the Nth call sees the decoder as the N-1 earlier
\* calls have left it.
C24_CallsInIssueOrder ==
    /\ \A i, j \in DOMAIN frame_calls :
        (frame_calls[i].state = "locked" /\ frame_calls[j].state = "locked") => i = j
    /\ \A i \in DOMAIN frame_calls :
        frame_calls[i].state = "replied" => frame_calls[i].seen = i - 1

\* The second of two calls in flight served first.
SecondCallServedFirst ==
    /\ Len(frame_calls) >= 2
    /\ frame_calls[1].state = "unblock"
    /\ frame_calls[2].state = "replied"
    /\ frame_calls[2].seen = 0
    /\ frame_calls[2].n_frame = 0

\* C26: a looping request always gets a frame, the one after the frame
\* returned last and frame 0 after the last frame; a request that does not
\* loop is refused with NoMoreFrames when the next frame is frame 0 of a
\* repeated pass.
C26_AnimationLoops ==
    [][\A i \in DOMAIN frame_calls :
        (frame_calls[i].state = "locked" /\ frame_calls'[i].state = "replied")
            => /\ frame_calls[i].loop_animation
                    => /\ frame_calls'[i].result = "Ok"
                       /\ frame_calls'[i].n_frame
                            = IF decoder.last = NoNFrame THEN 0
                              ELSE (decoder.last + 1) % decoder.n_frames
               /\ (~frame_calls[i].loop_animation /\ decoder.next = 0 /\ decoder.looped)
                    => frame_calls'[i].result = "NoMoreFrames"]_vars

\* A looping request that gets frame 1 after the last frame, frame 0 having
\* gone to a refused request.
FirstFrameSkipped ==
    /\ Len(frame_calls) = 4
    /\ decoder.n_frames = 2
    /\ frame_calls[2].n_frame = 1
    /\ frame_calls[3].result = "NoMoreFrames"
    /\ frame_calls[3].seen = 2
    /\ frame_calls[4].result = "Ok"
    /\ frame_calls[4].seen = 3
    /\ frame_calls[4].n_frame = 1

\* C25: dropping an Image or EditableImage hands its done call to a
\* detached task and returns; a done call that fails is logged, and the
\* caller of drop gets neither a panic nor an error.
C25_DropOnlyLogs ==
    fn_result.kind = "drops"
        => \A i \in 1..MaxImages :
            /\ fn_result.images[i].caller \in {"holding", "continued"}
            /\ fn_result.images[i].stage # "held" => fn_result.images[i].caller = "continued"
            /\ fn_result.images[i].done = "Err" => fn_result.images[i].logged

\* The same without the log entry for an EditableImage.
C25_DropNeverPropagates ==
    fn_result.kind = "drops"
        => \A i \in 1..MaxImages :
            /\ fn_result.images[i].caller \in {"holding", "continued"}
            /\ fn_result.images[i].stage # "held" => fn_result.images[i].caller = "continued"
            /\ (fn_result.images[i].done = "Err" /\ fn_args[i] = "Image")
                    => fn_result.images[i].logged

\* The done call of a dropped EditableImage has failed against a dead
\* worker and nothing was logged.
EditorDoneFailureNotLogged ==
    /\ fn_result.kind = "drops"
    /\ fn_args[1] = "EditableImage"
    /\ fn_result.worker = "dead"
    /\ fn_result.images[1].stage = "finished"
    /\ fn_result.images[1].done = "Err"
    /\ ~fn_result.images[1].logged

\* C31: the lock of a pool map is held for the selection in the bucket only:
\* a caller that is spawning a worker and waiting for its handshake does not
\* hold the lock of the map, so no other get_loader / get_editor on that map
\* waits for the spawn.
C31_LockOnlyForSelection ==
    \A t \in Tasks : pc[t] = "handshake" => lock[req[t].kind] # t

\* a child is running and not yet connected, its spawner holds the lock of
\* the map, and the other caller has not entered get_process
SpawnUnderLock ==
    \E t \in Tasks, u \in Tasks :
        /\ t # u
        /\ pc[t] = "handshake"
        /\ child[proc[t]] = "running" /\ remote[proc[t]] = "none"
        /\ lock[req[t].kind] = t
        /\ pc[u] = "idle" /\ req[u] = NoReq

\* The tasks that hold a live Image: load() has returned it and it has not
\* been dropped.  The Image keeps the usage tracker it was created with.
LiveImage(t) == op[t] = "load" /\ pc[t] \in {"loaded", "frame"}

\* C32: a loader worker on which a live Image still holds its usage tracker
\* is in the loader map, whatever acquisitions, tracker drops, firings of
\* retention timers and runs of clean_loaders have happened.
C32_UsedLoaderStaysPooled ==
    \A t \in Tasks :
        LiveImage(t) =>
            /\ usage_tracker[t] = proc[t]
            /\ InBucket(loaders, proc[t])

\* a live Image on a worker that has been idle for longer than the
\* retention time, after clean_loaders has evicted another loader worker
C32_Witness ==
    \E t \in Tasks, q \in Procs :
        /\ LiveImage(t)
        /\ last_use[proc[t]] > loader_retention_time
        /\ q # proc[t]
        /\ spawned_with[q].kind = "loader" /\ remote[q] = "dropped"

\* The pooled process p is the same before and after the step.
PooledUnchanged(p) ==
    /\ (InPool(p))'
    /\ (n_users(p))' = n_users(p)
    /\ child'[p] = child[p] /\ remote'[p] = remote[p]
    /\ proc_cancelled'[p] = proc_cancelled[p]
    /\ process_disconnected'[p] = process_disconnected[p]
    /\ last_use'[p] = last_use[p] /\ timeout'[p] = timeout[p]

\* C35: a get_loader / get_editor that fails, with a spawn error, a
\* premature exit of the child or a cancellation during the spawn, puts no
\* process into the pool and leaves every pooled process and its number of
\* users as they were.
C35_FailedAcquisitionLeavesPool ==
    [][\A t \in Tasks :
          (/\ pc[t] \in {"idle", "handshake"}
           /\ pc'[t] = "idle"
           /\ result'[t] # "none")
              => /\ loaders' = loaders
                 /\ editors' = editors
                 /\ \A p \in Procs : InPool(p) => PooledUnchanged(p)]_vars

\* a spawn was cancelled and its child killed while the other caller holds
\* a live Image on a pooled worker with one user
C35_Witness ==
    \E t \in Tasks, u \in Tasks, p \in Procs :
        /\ pc[t] = "idle" /\ result[t] = "Canceled"
        /\ remote[p] = "none" /\ child[p] = "killed"
        /\ LiveImage(u)
        /\ InBucket(loaders, proc[u])
        /\ n_users(proc[u]) = 1

\* The worker of task t has been handed out by get_process: the tie to the
\* process cancellable is disconnected and the worker is in the pool.
WorkerStarted(t) == pc[t] \notin {"idle", "handshake"} /\ InPool(proc[t])

\* C36: when the cancellable of an operation fires after its worker has
\* started, no worker is killed and no process cancellable fires, the
\* operations of the other callers go on as they were, and done is sent to
\* nothing but the path of the cancelled operation's own image.
C36_CancelTouchesOwnImageOnly ==
    [][\A t \in Tasks :
          (WorkerStarted(t) /\ ~cancelled[t] /\ cancelled'[t]) =>
             /\ child' = child
             /\ proc_cancelled' = proc_cancelled
             /\ remote' = remote
             /\ loaders' = loaders
             /\ hook_done'[t] = done_hook[t]
             /\ \A u \in Tasks \ {t} :
                   /\ pc'[u] = pc[u] /\ proc'[u] = proc[u]
                   /\ usage_tracker'[u] = usage_tracker[u]
                   /\ hook_done'[u] = hook_done[u]
                   /\ bg_done'[u] = bg_done[u]
                   /\ done_hook'[u] = done_hook[u]
                   /\ result'[u] = "none"]_vars

\* one caller has cancelled, done for its image is on its way to the worker,
\* and a frame request of the other caller's image on the same worker has
\* just returned a frame
C36_Witness ==
    \E t \in Tasks, u \in Tasks :
        /\ t # u
        /\ cancelled[t] /\ hook_done[t] = proc[t]
        /\ proc[u] = proc[t]
        /\ child[proc[t]] = "running"
        /\ LiveImage(u) /\ ~cancelled[u]
        /\ hook_done[u] = NoProc
        /\ result[u] = "Ok"

\* C38: whenever get_loader / get_editor has returned, with a worker or
\* with an error, the handler it connected to the caller's cancellable to
\* forward the cancellation to the process cancellable is disconnected.
C38_TieDetachedOnReturn ==
    \A t \in Tasks : pc[t] # "handshake" => ~tie[t]

\* get_process has returned PrematureExit to a caller that keeps its
\* cancellable, and the handler is still connected to it
TieLeftOnError ==
    \E t \in Tasks :
        /\ pc[t] = "idle" /\ result[t] = "PrematureExit"
        /\ tie[t]

\* C34: after an Image is dropped the usage tracker it held is released in
\* the end, whether the done call succeeds, fails or is never answered by
\* the worker.
C34_TrackerReleased ==
    \A t \in Tasks : (pc[t] = "dropping") ~> (usage_tracker[t] = NoProc)

\* an Image has been dropped, its worker is alive and the tracker is still
\* held by the task that waits for done to return
TrackerWaitsForDone ==
    \E t \in Tasks :
        /\ pc[t] = "dropping"
        /\ child[proc[t]] = "running"
        /\ usage_tracker[t] = proc[t]

\* The stride of a frame is a multiple of the size of a pixel.
StrideMultiple(f) == f.stride % n_bytes(f.memory_format) = 0

\* C39: srem(a, b) is the remainder of a by b for usize, u32 and u64 and
\* fails only when b is 0, and remove_stride_if_needed returns the buffer
\* and the frame as they are exactly when the stride is a multiple of the
\* size of a pixel.
C39_SremIsRemainder ==
    /\ fn_result.kind = "srem" =>
          fn_result.value = IF fn_args.b = 0 THEN DimensionTooLargerError
                            ELSE fn_args.a % fn_args.b
    /\ fn_result.kind = "remove_stride_if_needed" =>
          (StrideMultiple(fn_args.frame) <=>
              /\ fn_result.value.error = "Ok"
              /\ fn_result.value.img_buf = fn_args.img_buf
              /\ fn_result.value.frame = fn_args.frame)

\* srem of u32 has returned the sum
SremOfU32IsSum ==
    /\ fn_result.kind = "srem"
    /\ fn_args.type = "u32" /\ fn_args.a = 8 /\ fn_args.b = 4
    /\ fn_result.value = 12

\* a frame whose stride is a multiple of the size of a pixel has had its
\* rows packed and its buffer resized
StrideMultipleRepacked ==
    /\ fn_result.kind = "remove_stride_if_needed"
    /\ StrideMultiple(fn_args.frame)
    /\ fn_result.value.error = "Ok"
    /\ fn_result.value.frame.stride < fn_args.frame.stride
    /\ fn_result.value.img_buf.len < fn_args.img_buf.len

\* The frame request has turned the frame by 90 or 270 degrees.
FrameQuarterTurned ==
    /\ fn_result.applied # None
    /\ unwrap_or(fn_result.applied, Id).rotate \in {90, 270}

\* The Image reports the worker's width as its height and the worker's
\* height as its width.
DimensionsSwapped ==
    /\ fn_result.width = fn_args.details.height
    /\ fn_result.height = fn_args.details.width

\* C37: the width and height an Image reports are swapped against the ones
\* the worker declared exactly when the frames returned for it have been
\* turned by 90 or 270 degrees, also with apply_transformations off and
\* with ignore_exif set.
C37_DimensionsFollowFrames ==
    fn_result.kind = "framed" => (DimensionsSwapped <=> FrameQuarterTurned)

\* apply_transformations is off, the Exif data asks for a quarter turn: the
\* Image reports 3 x 2 and its frame comes as the worker sent it, 2 x 3
SwappedButFrameUnturned ==
    /\ fn_result.kind = "framed"
    /\ ~fn_args.apply_transformations
    /\ fn_args.details.transformation_orientation = None
    /\ fn_args.details.metadata_exif.orientation = Some(Orientation(FALSE, 90))
    /\ DimensionsSwapped
    /\ fn_result.applied = None

\* C40: for every pair of formats that takes the branch for one channel
\* type, of 8-bit, 16-bit and float formats, the bytes written are those the
\* conversion of each pixel through f32 writes: every channel of the target
\* holds the whole value of the source channel it stands for.
C40_FastPathEqualsTransform ==
    fn_result.kind = "changed" =>
        /\ fn_result.new_data = fn_result.transformed
        /\ fn_result.new_data = copy_whole_channels(fn_args.src_format,
                                                    fn_args.target_format,
                                                    fn_args.src_data)

\* R16g16b16a16 to R16g16b16: the first four bytes of the source pixel are
\* copied and the blue channel is left 0
SixteenBitChannelsCut ==
    /\ fn_result.kind = "changed"
    /\ fn_args.src_format = "R16g16b16a16" /\ fn_args.target_format = "R16g16b16"
    /\ fn_args.src_data = <<2, 3, 4, 5, 6, 7, 8, 9>>
    /\ fn_result.new_data = <<2, 3, 4, 5, 0, 0>>
    /\ fn_result.transformed = <<2, 3, 4, 5, 6, 7>>

\* a premultiplied 8-bit pixel with alpha 0 and colours that are not 0: the
\* colours are copied, the conversion through f32 writes 0
ZeroAlphaColoursCopied ==
    /\ fn_result.kind = "changed"
    /\ fn_args.src_format = "R8g8b8a8Premultiplied"
    /\ fn_args.target_format = "B8g8r8a8Premultiplied"
    /\ fn_args.src_data = <<2, 3, 4, 0>>
    /\ fn_result.new_data = <<4, 3, 2, 0>>
    /\ fn_result.transformed = <<0, 0, 0, 0>>

\* 8-bit formats that are not premultiplied: both ways write the same bytes
EightBitChannelsEqual ==
    (/\ fn_result.kind = "changed"
     /\ channel_type(fn_args.src_format) = "U8"
     /\ ~is_premultiplied(fn_args.src_format))
        => fn_result.new_data = fn_result.transformed

\* C33: a loader worker in the pool that has no users leaves the pool in
\* the end unless it gets a user again, whatever the order of tracker
\* drops, firings of retention timers, cancel handlers and use_() calls.
C33_IdleLoaderLeavesPool ==
    \A p \in Procs :
        (InBucket(loaders, p) /\ n_users(p) = 0)
            ~> (~InBucket(loaders, p) \/ n_users(p) > 0)

\* a loader worker in the pool without users and without a retention timer
IdleLoaderWithoutTimer ==
    \E p \in Procs :
        /\ InBucket(loaders, p)
        /\ n_users(p) = 0
        /\ \A q \in Procs : timeout[q] = NoTimer
        /\ \A t \in Tasks : pc[t] = "idle" /\ settled(t)


====
